---- MODULE Spec2Model ----
(***************************************************************************)
(* A model of the tool registry, the confirmation gate and the             *)
(* orchestration loop of ai_chat_tools:                                    *)
(*   tool_manager.py       ToolRegistry.execute                            *)
(*   user_confirmation.py  UserConfirmationManager                         *)
(*   config.py             Config.get_confirmation_policy and setters      *)
(*   core.py               ChatBot.chat_stream, ChatBot._execute_tool_calls *)
(***************************************************************************)
EXTENDS Integers, Sequences, FiniteSets, Bags, TLC

\* ------------------------------------------------------------------ bounds
\* time.time()*1000 takes the values 0..MaxClock
MaxClock == 1
\* UserConfirmationRequired objects constructed in one run
MaxReq == 2
\* execute_confirmed_tool coroutines awaiting an async handler at one time
MaxAwaiting == 2
\* chat_stream calls in one run
MaxChats == 2

\* ------------------------------------------------------------- vocabulary
None == "None"
Policies == {"ask", "allow", "deny"}
MemoryValues == {"allow_always", "deny_always"}
Categories == {"file_write", "general"}
\* a name the registry never holds
UnknownNames == {"ghost"}
\* parameters values: two dicts, and a JSON value that is not a dict
ParamValues == {"dict_a", "dict_b"}
NonDictParam == "number"
IsDict(p) == p # NonDictParam
\* what the call func(**valid_params) does: returns a string, returns a string
\* that starts with the error mark, raises a non-TypeError from its body, raises
\* a TypeError from its body, or fails to bind its parameters (a TypeError
\* raised by the call itself)
HandlerOutcomes == {"ok", "err_text", "raise", "raise_type_error", "arity"}
\* answers to the console prompt of request_confirmation, and to the
\* "save to the configuration file?" prompt of _save_user_choice
PromptChoices == {"y", "n", "a", "d", "interrupt"}
SaveChoices == {"y", "n"}
\* choices handled by handle_confirmation_response
WebChoices == {"allow", "deny", "other"}

VARIABLES
    tools,                  \* ToolRegistry.tools: name -> spec
    default_policy,         \* config user_confirmation.default_policy
    tool_policies,          \* config user_confirmation.tool_policies (a dict)
    category_policies,      \* config user_confirmation.category_policies (a dict)
    session_memory,         \* config user_confirmation.session_memory (a dict)
    remember_choices,       \* config user_confirmation.remember_choices
    web_mode,               \* user_confirmation_manager.web_mode
    pending_confirmations,  \* user_confirmation_manager.pending_confirmations
    clock,                  \* int(time.time() * 1000)
    issued,                 \* the confirmation_id of every request constructed, in order
    invoked,                \* per request: handler calls made by execute_confirmed_tool
    awaiting,               \* bag of execute_confirmed_tool coroutines awaiting a handler
    approved,               \* history: requests handle_confirmation_response answered True for
    resumed,                \* history: ids whose pending entry a resume has removed
    last,                   \* what the last completed operation did and returned
    pc,                     \* chat_stream: position of the loop
    round_count,            \* chat_stream: round_count
    tool_calls_found,       \* chat_stream: calls extracted from the round's reply
    tool_results,           \* chat_stream: results of the round
    generations,            \* chat_stream: model generations of this call
    executions,             \* chat_stream: tool executions of this call
    every_reply_called,     \* chat_stream: every reply of this call held a tool call
    notice,                 \* chat_stream: the round-limit notice was emitted
    chats,                  \* chat_stream calls started
    resolved,               \* the last get_confirmation_policy call and its result
    thinking_mode,          \* ChatBot._thinking_mode: not set, True or False
    stream,                 \* chat_stream: chunks the adapter has still to yield
    full_response,          \* chat_stream: full_response of the round
    yielded,                \* chat_stream: what the generator has yielded, in order
    history,                \* the messages table of the session, in order
    current_messages,       \* the prompt _build_messages_from_history last built
    requests,               \* /chat requests being served: position of each one's loop
    chatbots,               \* the ChatBot objects constructed, in order: their fields
    self                    \* the ChatBot whose chat_stream is running (its index), or 0

cfgVars == <<default_policy, tool_policies, category_policies, session_memory,
             remember_choices>>
gateVars == <<web_mode, pending_confirmations, issued, invoked, awaiting,
              approved, resumed>>
loopVars == <<pc, round_count, tool_calls_found, tool_results, generations,
              executions, every_reply_called, notice, chats>>
extVars == <<thinking_mode, stream, full_response, yielded, history,
             current_messages, requests>>
botVars == <<chatbots, self>>
vars == <<tools, cfgVars, gateVars, clock, last, loopVars, resolved, extVars, botVars>>

\* ------------------------------------------------------------ dictionaries
\* Config.get on a dict: the value, or None for a missing key
Get(d, k) == IF k \in DOMAIN d THEN d[k] ELSE None
\* Config.set on a dict
Put(d, k, v) == [x \in DOMAIN d \cup {k} |-> IF x = k THEN v ELSE d[x]]
\* del d[k]
Del(d, k) == [x \in DOMAIN d \ {k} |-> d[x]]
\* Python truthiness of a policy value
Truthy(v) == v # None /\ v # ""
EmptyDict == [x \in {} |-> None]
Dicts(K, V) == UNION {[S -> V] : S \in SUBSET K}

\* ---------------------------------------------------------------- results
ToolResultOf(success, code, data) ==
    [kind |-> "ToolResult", success |-> success, error_code |-> code, data |-> data]
BoolOf(b) == [kind |-> "bool", success |-> b, error_code |-> None, data |-> ""]
Raised(exc) == [kind |-> "raise", success |-> FALSE, error_code |-> exc, data |-> ""]
NoId == <<None, 0>>
NoOp == [op |-> "none", name |-> None, cid |-> NoId, ret |-> BoolOf(TRUE),
         gate |-> FALSE, prompted |-> FALSE, suspended |-> FALSE,
         handler |-> FALSE, args |-> None, req |-> 0]
NoResolution == [tool_name |-> None, category |-> None, policy |-> None]


\* ------------------------------------------------------------------ config
\* the parts of a name between its underscores: f"{a}_{b}" of two names is
\* the concatenation of their parts
Tokens(name) ==
    CASE name = "write_file" -> <<"write", "file">>
      [] name = "read_file"  -> <<"read", "file">>
      [] name = "run_task"   -> <<"run", "task">>
      [] name = "file_write" -> <<"file", "write">>
      [] OTHER               -> <<name>>

\* session_key = f"{tool_name}_{confirm_category}"
SessionKey(tool_name, category) == Tokens(tool_name) \o Tokens(category)

\* self.get("user_confirmation.default_policy", "ask")
DefaultPolicy == IF default_policy = None THEN "ask" ELSE default_policy

\* get_confirmation_policy with the category looked up before the tool
get_confirmation_policy_category_first(tool_name, category) ==
    IF Truthy(category) /\ Truthy(Get(category_policies, category))
    THEN Get(category_policies, category)
    ELSE IF Truthy(tool_name) /\ Truthy(Get(tool_policies, tool_name))
    THEN Get(tool_policies, tool_name)
    ELSE DefaultPolicy

\* Config.get_confirmation_policy(tool_name, category)
get_confirmation_policy(tool_name, category) ==
    IF Truthy(tool_name) /\ Truthy(Get(tool_policies, tool_name))
    THEN Get(tool_policies, tool_name)
    ELSE IF Truthy(category) /\ Truthy(Get(category_policies, category))
    THEN Get(category_policies, category)
    ELSE DefaultPolicy

\* Config.is_remember_choices_enabled
is_remember_choices_enabled == remember_choices

\* Config.get_session_memory(key)
get_session_memory(key) == Get(session_memory, key)

\* -------------------------------------------------------------------- gate
\* requires_confirmation without its policy short cut
requires_confirmation_flag_only(tool_name, tool_info) == tool_info.requires_confirmation

\* UserConfirmationManager.requires_confirmation(tool_name, tool_info)
requires_confirmation(tool_name, tool_info) ==
    IF ~tool_info.requires_confirmation THEN FALSE
    ELSE IF get_confirmation_policy(tool_name, tool_info.confirmation_category)
              \in {"allow", "deny"}
    THEN FALSE
    ELSE IF /\ is_remember_choices_enabled
            /\ get_session_memory(SessionKey(tool_name, tool_info.confirmation_category))
                 \in MemoryValues
    THEN FALSE
    ELSE TRUE

\* get_auto_decision without its look at the session memory
get_auto_decision_policy_only(tool_name, tool_info) ==
    LET policy == get_confirmation_policy(tool_name, tool_info.confirmation_category)
    IN  IF policy = "allow" THEN "True"
        ELSE IF policy = "deny" THEN "False"
        ELSE None

\* UserConfirmationManager.get_auto_decision(tool_name, tool_info):
\* "True", "False" or None
get_auto_decision(tool_name, tool_info) ==
    LET policy == get_confirmation_policy(tool_name, tool_info.confirmation_category)
        memory == get_session_memory(SessionKey(tool_name, tool_info.confirmation_category))
    IN  IF policy = "allow" THEN "True"
        ELSE IF policy = "deny" THEN "False"
        ELSE IF is_remember_choices_enabled /\ memory = "allow_always" THEN "True"
        ELSE IF is_remember_choices_enabled /\ memory = "deny_always" THEN "False"
        ELSE None

\* confirmation_id = f"{tool_name}_{int(time.time() * 1000)}": the last part is
\* the number, so the string is determined by, and determines, the pair
ConfirmationId(tool_name, ms) == <<tool_name, ms>>

\* Config.set_confirmation_policy(policy, tool_name=tool_name): the tool
\* policies after it
set_confirmation_policy(policy, tool_name) == Put(tool_policies, tool_name, policy)

\* _save_user_choice(tool_name, tool_info, result): the session memory after it
SavedMemory(tool_name, tool_info, result) ==
    IF ~is_remember_choices_enabled THEN session_memory
    ELSE Put(session_memory, SessionKey(tool_name, tool_info.confirmation_category), result)

\* _save_user_choice(tool_name, tool_info, result): the tool policies after it;
\* save is the answer to its console prompt, asked only outside web mode
SavedToolPolicies(tool_name, result, save) ==
    IF ~is_remember_choices_enabled THEN tool_policies
    ELSE IF web_mode \/ save = "y"
    THEN set_confirmation_policy(IF result = "allow_always" THEN "allow" ELSE "deny",
                                 tool_name)
    ELSE tool_policies

\* the ToolResult ToolRegistry.execute builds from what the handler call did
ExecuteResult(hout) ==
    CASE hout = "ok"               -> ToolResultOf(TRUE, None, "text")
      [] hout = "err_text"         -> ToolResultOf(TRUE, None, "X text")
      [] hout = "raise"            -> ToolResultOf(FALSE, "EXECUTION_ERROR", "")
      [] hout = "raise_type_error" -> ToolResultOf(FALSE, "PARAMETER_ERROR", "")
      [] hout = "arity"            -> ToolResultOf(FALSE, "PARAMETER_ERROR", "")

\* the ToolResult execute_confirmed_tool builds from what the handler call did
ConfirmedResult(hout) ==
    CASE hout = "ok"               -> ToolResultOf(TRUE, None, "text")
      [] hout = "err_text"         -> ToolResultOf(FALSE, "TOOL_EXECUTION_ERROR", "")
      [] hout = "raise"            -> ToolResultOf(FALSE, "EXECUTION_ERROR", "")
      [] hout = "raise_type_error" -> ToolResultOf(FALSE, "PARAMETER_ERROR", "")
      [] hout = "arity"            -> ToolResultOf(FALSE, "PARAMETER_ERROR", "")

\* the ToolResult ToolRegistry.execute returns for a name it does not hold
NotFoundAsExecutionError == ToolResultOf(FALSE, "EXECUTION_ERROR", "")
NotFoundResult == ToolResultOf(FALSE, "TOOL_NOT_FOUND", "")

\* the ToolResult ToolRegistry.execute returns when the gate answers False
DeniedResult == ToolResultOf(FALSE, "USER_DENIED", "")

\* the answer of the console prompt loop of request_confirmation
PromptAllows(choice) == choice \in {"y", "a"}
PromptRemembers(choice) ==
    CASE choice = "a" -> "allow_always"
      [] choice = "d" -> "deny_always"
      [] OTHER        -> None

\* request_confirmation stores the request it raises under its confirmation_id
StorePending(cid, request) == Put(pending_confirmations, cid, request)

\* ToolRegistry.execute(name, parameters), with the gate it calls.
\* hout: what the handler call does; choice, save: the console answers.
ToolRegistry_execute(name, p, hout, choice, save) ==
    IF name \notin DOMAIN tools
    THEN /\ last' = [NoOp EXCEPT !.op = "execute", !.name = name, !.ret = NotFoundResult]
         /\ UNCHANGED <<botVars, extVars, cfgVars, gateVars>>
    ELSE
    LET tool == tools[name]
        auto == get_auto_decision(name, tool)
        cid  == ConfirmationId(name, clock)
        base == [NoOp EXCEPT !.op = "execute", !.name = name, !.gate = TRUE]
        \* parameters.copy() of _map_parameters, or parameters.items() of
        \* _show_confirmation_prompt, on a value that is not a dict
        bad  == [base EXCEPT !.ret = Raised("AttributeError")]
        ran  == IF IsDict(p)
                THEN [base EXCEPT !.handler = TRUE, !.ret = ExecuteResult(hout)]
                ELSE bad
        denied == [base EXCEPT !.ret = DeniedResult]
    IN  IF ~requires_confirmation(name, tool)
        THEN /\ last' = IF auto = "False" THEN denied ELSE ran
             /\ UNCHANGED <<botVars, extVars, cfgVars, gateVars>>
        ELSE IF web_mode
        THEN /\ Len(issued) < MaxReq
             /\ issued' = Append(issued, cid)
             /\ invoked' = Append(invoked, 0)
             /\ pending_confirmations' =
                    StorePending(cid, [tool_name |-> name, tool_info |-> tool,
                                       parameters |-> p, req |-> Len(issued) + 1])
             /\ last' = [base EXCEPT !.suspended = TRUE, !.cid = cid,
                            !.req = Len(issued) + 1,
                            !.ret = Raised("UserConfirmationRequired")]
             /\ UNCHANGED <<botVars, extVars, cfgVars, web_mode, awaiting, approved, resumed>>
        ELSE IF ~IsDict(p)
        THEN /\ last' = bad
             /\ UNCHANGED <<botVars, extVars, cfgVars, gateVars>>
        ELSE /\ last' = IF PromptAllows(choice)
                        THEN [ran EXCEPT !.prompted = TRUE]
                        ELSE [denied EXCEPT !.prompted = TRUE]
             /\ IF PromptRemembers(choice) # None
                THEN /\ session_memory' = SavedMemory(name, tool, PromptRemembers(choice))
                     /\ tool_policies' = SavedToolPolicies(name, PromptRemembers(choice), save)
                ELSE UNCHANGED <<botVars, extVars, session_memory, tool_policies>>
             /\ UNCHANGED <<botVars, extVars, default_policy, category_policies, remember_choices, gateVars>>

\* UserConfirmationManager.handle_confirmation_response(confirmation_id, choice,
\* remember_choice); save: the console answer _save_user_choice asks for when
\* the manager has been switched out of web mode
handle_confirmation_response(cid, choice, remember, save) ==
    IF cid \notin DOMAIN pending_confirmations
    THEN /\ last' = [NoOp EXCEPT !.op = "handle", !.cid = cid, !.ret = Raised("ValueError")]
         /\ UNCHANGED <<botVars, extVars, cfgVars, gateVars>>
    ELSE
    LET request == pending_confirmations[cid]
        tool_info == request.tool_info
        result == IF choice = "allow" THEN "allow_always" ELSE "deny_always"
    IN  /\ last' = [NoOp EXCEPT !.op = "handle", !.cid = cid, !.name = request.tool_name,
                       !.req = request.req, !.ret = BoolOf(choice = "allow")]
        /\ IF remember /\ choice \in {"allow", "deny"}
           THEN /\ session_memory' = SavedMemory(request.tool_name, tool_info, result)
                /\ tool_policies' = SavedToolPolicies(request.tool_name, result, save)
           ELSE UNCHANGED <<botVars, extVars, session_memory, tool_policies>>
        /\ pending_confirmations' =
               IF choice = "allow" THEN pending_confirmations
               ELSE Del(pending_confirmations, cid)
        /\ approved' = IF choice = "allow" THEN approved \cup {request.req} ELSE approved
        /\ resumed' = IF choice = "allow" THEN resumed ELSE resumed \cup {cid}
        /\ UNCHANGED <<botVars, extVars, default_policy, category_policies, remember_choices,
                       web_mode, issued, invoked, awaiting>>


\* execute_confirmed_tool without its finally clause
CleanUpNever(cid) == pending_confirmations

\* the finally clause of execute_confirmed_tool
CleanUp(cid) ==
    IF cid \in DOMAIN pending_confirmations
    THEN Del(pending_confirmations, cid)
    ELSE pending_confirmations

\* the handler call of execute_confirmed_tool is counted against the request
CountCall(req) == [invoked EXCEPT ![req] = @ + 1]

\* UserConfirmationManager.execute_confirmed_tool(confirmation_id) up to its
\* return, or up to its await of an async handler
execute_confirmed_tool(cid, hout) ==
    IF cid \notin DOMAIN pending_confirmations
    THEN /\ last' = [NoOp EXCEPT !.op = "confirmed", !.cid = cid, !.ret = Raised("ValueError")]
         /\ UNCHANGED <<botVars, extVars, cfgVars, gateVars>>
    ELSE
    LET request == pending_confirmations[cid]
        base == [NoOp EXCEPT !.op = "confirmed", !.cid = cid, !.name = request.tool_name,
                             !.req = request.req]
    IN  IF request.tool_name \notin DOMAIN tools
        THEN /\ last' = [base EXCEPT !.ret = NotFoundResult]
             /\ pending_confirmations' = CleanUp(cid)
             /\ resumed' = resumed \cup {cid}
             /\ UNCHANGED <<botVars, extVars, cfgVars, web_mode, issued, invoked, awaiting, approved>>
        ELSE IF ~IsDict(request.parameters)
        THEN /\ last' = [base EXCEPT !.ret = ConfirmedResult("raise")]
             /\ pending_confirmations' = CleanUp(cid)
             /\ resumed' = resumed \cup {cid}
             /\ UNCHANGED <<botVars, extVars, cfgVars, web_mode, issued, invoked, awaiting, approved>>
        ELSE IF tools[request.tool_name].is_async
        THEN /\ BagCardinality(awaiting) < MaxAwaiting
             /\ awaiting' = awaiting (+) SetToBag({[cid |-> cid, req |-> request.req,
                                                    name |-> request.tool_name,
                                                    args |-> request.parameters]})
             /\ invoked' = CountCall(request.req)
             /\ last' = [base EXCEPT !.op = "confirmed_await", !.handler = TRUE,
                                     !.args = request.parameters]
             /\ UNCHANGED <<botVars, extVars, cfgVars, web_mode, pending_confirmations, issued,
                            approved, resumed>>
        ELSE /\ invoked' = CountCall(request.req)
             /\ last' = [base EXCEPT !.handler = TRUE, !.args = request.parameters,
                                     !.ret = ConfirmedResult(hout)]
             /\ pending_confirmations' = CleanUp(cid)
             /\ resumed' = resumed \cup {cid}
             /\ UNCHANGED <<botVars, extVars, cfgVars, web_mode, issued, awaiting, approved>>

\* execute_confirmed_tool from the return of the awaited async handler on
execute_confirmed_tool_resume(co, hout) ==
    /\ awaiting' = awaiting (-) SetToBag({co})
    /\ last' = [NoOp EXCEPT !.op = "confirmed", !.cid = co.cid, !.name = co.name,
                            !.req = co.req, !.handler = TRUE, !.args = co.args,
                            !.ret = ConfirmedResult(hout)]
    /\ pending_confirmations' = CleanUp(co.cid)
    /\ resumed' = resumed \cup {co.cid}
    /\ UNCHANGED <<botVars, extVars, cfgVars, web_mode, issued, invoked, approved>>

\* ------------------------------------------------------- registry contents
ToolSpec(flagged, category, async) ==
    [requires_confirmation |-> flagged, confirmation_category |-> category,
     is_async |-> async]

\* a registry after the registration calls made at import: a flagged and an
\* unflagged tool with synchronous handlers
SyncTools ==
    [n \in {"write_file", "read_file"} |->
        IF n = "write_file" THEN ToolSpec(TRUE, "file_write", FALSE)
        ELSE ToolSpec(FALSE, "general", FALSE)]

\* a registry with two flagged tools, one with an async handler
AsyncTools ==
    [n \in {"write_file", "run_task"} |->
        IF n = "write_file" THEN ToolSpec(TRUE, "file_write", FALSE)
        ELSE ToolSpec(TRUE, "general", TRUE)]

\* the user_confirmation section of Config._load_config's default_config
DefaultCategoryPolicies == [c \in {"file_write"} |-> "ask"]

\* ----------------------------------------------------------------- actions
InitGate ==
    /\ pending_confirmations = EmptyDict
    /\ clock = 0
    /\ issued = <<>>
    /\ invoked = <<>>
    /\ awaiting = EmptyBag
    /\ approved = {}
    /\ resumed = {}
    /\ last = NoOp
    /\ resolved = NoResolution

InitLoop ==
    /\ pc = "idle"
    /\ round_count = 0
    /\ tool_calls_found = <<>>
    /\ tool_results = <<>>
    /\ generations = 0
    /\ executions = 0
    /\ every_reply_called = TRUE
    /\ notice = FALSE
    /\ chats = 0
    /\ thinking_mode = "unset"
    /\ stream = <<>>
    /\ full_response = <<>>
    /\ yielded = <<>>
    /\ history = <<>>
    /\ current_messages = <<>>
    /\ requests = <<>>
    /\ chatbots = <<>>
    /\ self = 0

\* the configuration Config._load_config builds when there is no config.json
InitDefaultConfig ==
    /\ default_policy = "ask"
    /\ tool_policies = EmptyDict
    /\ category_policies = DefaultCategoryPolicies
    /\ session_memory = EmptyDict
    /\ remember_choices = TRUE

\* the configuration Config._load_config builds from some config.json
InitAnyConfig ==
    /\ default_policy \in Policies
    /\ tool_policies \in Dicts({"write_file", "read_file"}, Policies)
    /\ category_policies \in Dicts(Categories, Policies)
    /\ session_memory = EmptyDict
    /\ remember_choices \in BOOLEAN

\* the process after import: the manager is built with web_mode=False
Init ==
    /\ tools = SyncTools
    /\ InitGate
    /\ InitLoop
    /\ InitDefaultConfig
    /\ web_mode = FALSE

\* time passes
Tick ==
    /\ clock < MaxClock
    /\ clock' = clock + 1
    /\ UNCHANGED <<botVars, extVars, tools, cfgVars, gateVars, last, loopVars, resolved>>

\* ChatBot.__init__(web_mode=b) sets the mode of the process-wide manager
NewChatBot(b) ==
    /\ web_mode' = b
    /\ UNCHANGED <<botVars, extVars, tools, cfgVars, pending_confirmations, issued, invoked, awaiting,
                   approved, resumed, clock, last, loopVars, resolved>>

\* the console is read only when request_confirmation prompts
Prompts(name) ==
    /\ name \in DOMAIN tools
    /\ requires_confirmation(name, tools[name])
    /\ ~web_mode
\* the parameters are kept only by a request that is stored
Suspends(name) ==
    /\ name \in DOMAIN tools
    /\ requires_confirmation(name, tools[name])
    /\ web_mode
\* the handler is called only when the gate lets the call through
Passes(name, choice) ==
    /\ name \in DOMAIN tools
    /\ IF requires_confirmation(name, tools[name])
       THEN ~web_mode /\ PromptAllows(choice)
       ELSE get_auto_decision(name, tools[name]) # "False"
\* the inputs an operation reads on the path it takes
ChoicesFor(name) == IF Prompts(name) THEN PromptChoices ELSE {"y"}
SavesFor(choice) == IF choice \in {"a", "d"} THEN SaveChoices ELSE {"n"}
ParamsFor(name) == IF Suspends(name) THEN ParamValues ELSE {"dict_a"}
OutcomesFor(name, choice) == IF Passes(name, choice) THEN HandlerOutcomes ELSE {"ok"}
RemembersFor(cid, choice) ==
    IF cid \in DOMAIN pending_confirmations /\ choice \in {"allow", "deny"}
    THEN BOOLEAN ELSE {FALSE}
WebSavesFor(remember) == IF remember /\ ~web_mode THEN SaveChoices ELSE {"n"}
ConfirmedOutcomesFor(cid) ==
    IF cid \in DOMAIN pending_confirmations
    THEN IF pending_confirmations[cid].tool_name \in DOMAIN tools
            /\ ~tools[pending_confirmations[cid].tool_name].is_async
            /\ IsDict(pending_confirmations[cid].parameters)
         THEN HandlerOutcomes ELSE {"ok"}
    ELSE {"ok"}

\* a direct call of ToolRegistry.execute
Execute(name, p, hout, choice, save) ==
    /\ ToolRegistry_execute(name, p, hout, choice, save)
    /\ UNCHANGED <<botVars, extVars, tools, clock, loopVars, resolved>>

\* a call of handle_confirmation_response
Respond(cid, choice, remember, save) ==
    /\ handle_confirmation_response(cid, choice, remember, save)
    /\ UNCHANGED <<botVars, extVars, tools, clock, loopVars, resolved>>

\* a call of execute_confirmed_tool
ExecuteConfirmed(cid, hout) ==
    /\ execute_confirmed_tool(cid, hout)
    /\ UNCHANGED <<botVars, extVars, tools, clock, loopVars, resolved>>

\* an awaited async handler returns to execute_confirmed_tool
ExecuteConfirmedResume(co, hout) ==
    /\ execute_confirmed_tool_resume(co, hout)
    /\ UNCHANGED <<botVars, extVars, tools, clock, loopVars, resolved>>

\* ids a client may send: those the gate can issue, and one it never issues
ResumeIds ==
    {ConfirmationId(n, ms) : n \in {t \in DOMAIN tools : tools[t].requires_confirmation},
                             ms \in 0..MaxClock}
        \cup {ConfirmationId("ghost", 0)}
\* names a caller may pass to execute
CallNames == DOMAIN tools \cup UnknownNames

Next ==
    \/ Tick
    \/ \E b \in BOOLEAN : NewChatBot(b)
    \/ \E n \in CallNames : \E p \in ParamsFor(n), choice \in ChoicesFor(n) :
          \E hout \in OutcomesFor(n, choice), save \in SavesFor(choice) :
             Execute(n, p, hout, choice, save)
    \/ \E cid \in ResumeIds, choice \in WebChoices :
          \E remember \in RemembersFor(cid, choice) :
             \E save \in WebSavesFor(remember) : Respond(cid, choice, remember, save)
    \/ \E cid \in ResumeIds : \E hout \in ConfirmedOutcomesFor(cid) :
             ExecuteConfirmed(cid, hout)

Spec == Init /\ [][Next]_vars


\* ------------------------------------------------ the gate under any policy
\* the process after import with some config.json in place and one ChatBot
\* constructed, in either mode
InitAnyPolicy ==
    /\ tools = SyncTools
    /\ InitGate
    /\ InitLoop
    /\ InitAnyConfig
    /\ web_mode \in BOOLEAN

NextGate ==
    \/ Tick
    \/ \E n \in CallNames : \E p \in ParamsFor(n), choice \in ChoicesFor(n) :
          \E hout \in OutcomesFor(n, choice), save \in SavesFor(choice) :
             Execute(n, p, hout, choice, save)

SpecGate == InitAnyPolicy /\ [][NextGate]_vars


\* ------------------------------------------------- the gate, async handlers
\* the process after import of a module whose flagged tools include an async
\* one, and one ChatBot(web_mode=True) constructed
InitAsync ==
    /\ tools = AsyncTools
    /\ InitGate
    /\ InitLoop
    /\ InitDefaultConfig
    /\ web_mode = TRUE

NextAsync ==
    \/ Tick
    \/ \E n \in CallNames : \E p \in ParamsFor(n), choice \in ChoicesFor(n) :
          \E hout \in OutcomesFor(n, choice), save \in SavesFor(choice) :
             Execute(n, p, hout, choice, save)
    \/ \E cid \in ResumeIds, choice \in WebChoices :
          \E remember \in RemembersFor(cid, choice) :
             \E save \in WebSavesFor(remember) : Respond(cid, choice, remember, save)
    \/ \E cid \in ResumeIds : \E hout \in ConfirmedOutcomesFor(cid) :
             ExecuteConfirmed(cid, hout)
    \/ \E co \in BagToSet(awaiting), hout \in HandlerOutcomes :
             ExecuteConfirmedResume(co, hout)

SpecAsync == InitAsync /\ [][NextAsync]_vars

\* ---------------------------------------------------- the policy resolver
\* a configuration in which each of the three policies is set or not
InitPolicy ==
    /\ tools = SyncTools
    /\ InitGate
    /\ InitLoop
    /\ default_policy \in Policies \cup {None}
    /\ tool_policies \in Dicts({"write_file", "read_file"}, Policies)
    /\ category_policies \in Dicts(Categories, Policies)
    /\ session_memory = EmptyDict
    /\ remember_choices = TRUE
    /\ web_mode = FALSE

\* a call config.get_confirmation_policy(tool_name, category)
Resolve(tool_name, category) ==
    /\ resolved' = [tool_name |-> tool_name, category |-> category,
                    policy |-> get_confirmation_policy(tool_name, category)]
    /\ UNCHANGED <<botVars, extVars, tools, cfgVars, gateVars, clock, last, loopVars>>

\* a call config.set_confirmation_policy(policy, tool_name, category)
SetPolicy(policy, tool_name, category) ==
    /\ IF Truthy(tool_name)
       THEN /\ tool_policies' = set_confirmation_policy(policy, tool_name)
            /\ UNCHANGED <<botVars, extVars, category_policies, default_policy>>
       ELSE IF Truthy(category)
       THEN /\ category_policies' = Put(category_policies, category, policy)
            /\ UNCHANGED <<botVars, extVars, tool_policies, default_policy>>
       ELSE /\ default_policy' = policy
            /\ UNCHANGED <<botVars, extVars, tool_policies, category_policies>>
    /\ UNCHANGED <<botVars, extVars, tools, session_memory, remember_choices, gateVars, clock, last,
                   loopVars, resolved>>

\* the names and categories a caller may ask about: None is the default of
\* both arguments
PolicyNames == {"write_file", "read_file", None}
PolicyCategories == Categories \cup {None}

NextPolicy ==
    \/ \E t \in PolicyNames, c \in PolicyCategories : Resolve(t, c)
    \/ \E policy \in Policies, t \in PolicyNames, c \in PolicyCategories :
          SetPolicy(policy, t, c)

SpecPolicy == InitPolicy /\ [][NextPolicy]_vars

\* ------------------------------------------------- the orchestration loop
\* max_rounds of chat_stream
max_rounds == 30

\* a model reply, as the extractor reads it: the tool-call blocks of the text
\* in the order the extractor visits them, each well formed or not
Candidates == [name : CallNames, valid : BOOLEAN]
Replies == {<<>>} \cup {<<c>> : c \in Candidates}
                  \cup {<<c, d>> : c \in Candidates, d \in Candidates}

\* the blocks that pass XMLParser._validate_tool_call
RECURSIVE ValidCalls(_)
ValidCalls(text) ==
    IF text = <<>> THEN <<>>
    ELSE (IF Head(text).valid THEN <<Head(text).name>> ELSE <<>>) \o ValidCalls(Tail(text))

\* XMLParser.extract_tool_calls(text): only the first call is kept
extract_tool_calls(text) ==
    LET tool_calls == ValidCalls(text)
    IN  IF Len(tool_calls) > 1 THEN SubSeq(tool_calls, 1, 1) ELSE tool_calls

\* the loop condition of chat_stream, and the condition with the limit included
WhileConditionInclusive == round_count <= max_rounds
WhileCondition == round_count < max_rounds

\* _execute_tool_calls: what the call adds to results when execute() returned
\* ret, or raised something other than the suspend signal; and the same
\* without the except Exception clause
LoopResultsUncaught(ret) == IF ret.kind = "raise" THEN <<>> ELSE <<ret>>
LoopResults(ret) ==
    IF ret.kind = "raise" THEN <<ToolResultOf(FALSE, "EXECUTION_ERROR", "")>> ELSE <<ret>>

\* chat_stream is called: everything before the while loop
StartChatStream ==
    /\ pc \in {"idle", "done", "raised"}
    /\ chats < MaxChats
    /\ chats' = chats + 1
    /\ pc' = "while"
    /\ round_count' = 0
    /\ tool_calls_found' = <<>>
    /\ tool_results' = <<>>
    /\ generations' = 0
    /\ executions' = 0
    /\ every_reply_called' = TRUE
    /\ notice' = FALSE
    /\ UNCHANGED <<botVars, extVars, tools, cfgVars, gateVars, clock, last, resolved>>

\* one pass of the loop body up to the test for tool calls: the adapter
\* streams the reply and the extractor reads it
Generate(reply) ==
    /\ pc = "while"
    /\ WhileCondition
    /\ round_count' = round_count + 1
    /\ generations' = generations + 1
    /\ tool_calls_found' = extract_tool_calls(reply)
    /\ tool_results' = <<>>
    /\ every_reply_called' = (every_reply_called /\ tool_calls_found' # <<>>)
    /\ pc' = IF tool_calls_found' = <<>> THEN "after" ELSE "execute"
    /\ UNCHANGED <<botVars, extVars, tools, cfgVars, gateVars, clock, last, executions, notice, chats,
                   resolved>>

\* the arguments of the call are read when it is executed
LoopParamsFor(name) ==
    IF Suspends(name) THEN ParamValues \cup {NonDictParam}
    ELSE IF name \in DOMAIN tools THEN {"dict_a", NonDictParam}
    ELSE {"dict_a"}

\* the rest of the loop body: _execute_tool_calls(tool_calls_found), which
\* holds one call, and the hand-over of its results
ExecuteToolCalls(p, hout, choice, save) ==
    /\ pc = "execute"
    /\ ToolRegistry_execute(tool_calls_found[1], p, hout, choice, save)
    /\ executions' = executions + 1
    /\ IF last'.ret = Raised("UserConfirmationRequired")
       THEN /\ pc' = "raised"
            /\ tool_results' = <<>>
       ELSE /\ pc' = "while"
            /\ tool_results' = LoopResults(last'.ret)
    /\ UNCHANGED <<botVars, extVars, tools, clock, round_count, tool_calls_found, generations,
                   every_reply_called, notice, chats, resolved>>

\* the loop is left, by break or by its condition: the statement after it
Finish ==
    /\ pc = "after" \/ (pc = "while" /\ ~WhileCondition)
    /\ notice' = (round_count >= max_rounds)
    /\ pc' = "done"
    /\ UNCHANGED <<botVars, extVars, tools, cfgVars, gateVars, clock, last, round_count,
                   tool_calls_found, tool_results, generations, executions,
                   every_reply_called, chats, resolved>>

\* the process after import and one ChatBot constructed, in either mode
InitChat ==
    /\ tools = SyncTools
    /\ InitGate
    /\ InitLoop
    /\ InitDefaultConfig
    /\ web_mode \in BOOLEAN

ExecuteToolCallsStep ==
    \E p \in LoopParamsFor(tool_calls_found[1]), choice \in ChoicesFor(tool_calls_found[1]) :
       \E hout \in OutcomesFor(tool_calls_found[1], choice), save \in SavesFor(choice) :
          ExecuteToolCalls(p, hout, choice, save)

NextLoop ==
    \/ Tick
    \/ StartChatStream
    \/ \E reply \in Replies : Generate(reply)
    \/ pc = "execute" /\ ExecuteToolCallsStep
    \/ Finish

SpecLoop == InitChat /\ [][NextLoop]_vars

\* the adapter answers, the handler returns and the console is answered
SpecLoopFair ==
    SpecLoop /\ WF_vars((\E reply \in Replies : Generate(reply))
                        \/ (pc = "execute" /\ ExecuteToolCallsStep) \/ Finish)

\* ------------------------------------------------- the gate and its memory
\* Config.clear_session_memory
ClearSessionMemory ==
    /\ session_memory' = EmptyDict
    /\ UNCHANGED <<botVars, extVars, tools, default_policy, tool_policies, category_policies,
                   remember_choices, gateVars, clock, last, loopVars, resolved>>

\* the process after import with a config.json an earlier run has saved, whose
\* session memory may hold a choice for the flagged tool and whose
\* remember_choices switch is on or off, and one ChatBot constructed
InitMemory ==
    /\ tools = SyncTools
    /\ InitGate
    /\ InitLoop
    /\ default_policy = "ask"
    /\ tool_policies = EmptyDict
    /\ category_policies = DefaultCategoryPolicies
    /\ session_memory \in Dicts({SessionKey("write_file", "file_write")}, MemoryValues)
    /\ remember_choices \in BOOLEAN
    /\ web_mode \in BOOLEAN

NextMemory ==
    \/ Tick
    \/ \E n \in CallNames : \E p \in ParamsFor(n), choice \in ChoicesFor(n) :
          \E hout \in OutcomesFor(n, choice), save \in SavesFor(choice) :
             Execute(n, p, hout, choice, save)
    \/ \E cid \in ResumeIds, choice \in WebChoices :
          \E remember \in RemembersFor(cid, choice) :
             \E save \in WebSavesFor(remember) : Respond(cid, choice, remember, save)
    \/ ClearSessionMemory

SpecMemory == InitMemory /\ [][NextMemory]_vars

\* ------------------------------------------------ the non-streaming loop
\* max_rounds of chat
chat_max_rounds == 10

\* the loop condition of chat
ChatWhileCondition == round_count < chat_max_rounds

\* chat is called: everything before the while loop
StartChat ==
    /\ pc \in {"idle", "done", "raised"}
    /\ chats < MaxChats
    /\ chats' = chats + 1
    /\ pc' = "chat_while"
    /\ round_count' = 0
    /\ tool_calls_found' = <<>>
    /\ tool_results' = <<>>
    /\ generations' = 0
    /\ executions' = 0
    /\ every_reply_called' = TRUE
    /\ notice' = FALSE
    /\ UNCHANGED <<botVars, extVars, tools, cfgVars, gateVars, clock, last, resolved>>

\* one pass of the loop body of chat up to the test for tool calls
ChatGenerate(reply) ==
    /\ pc = "chat_while"
    /\ ChatWhileCondition
    /\ round_count' = round_count + 1
    /\ generations' = generations + 1
    /\ tool_calls_found' = extract_tool_calls(reply)
    /\ tool_results' = <<>>
    /\ every_reply_called' = (every_reply_called /\ tool_calls_found' # <<>>)
    /\ pc' = IF tool_calls_found' = <<>> THEN "chat_after" ELSE "chat_execute"
    /\ UNCHANGED <<botVars, extVars, tools, cfgVars, gateVars, clock, last, executions, notice, chats,
                   resolved>>

\* the rest of the loop body of chat: _execute_tool_calls(tool_calls), not
\* wrapped in any try
ChatExecuteToolCalls(p, hout, choice, save) ==
    /\ pc = "chat_execute"
    /\ ToolRegistry_execute(tool_calls_found[1], p, hout, choice, save)
    /\ executions' = executions + 1
    /\ IF last'.ret = Raised("UserConfirmationRequired")
       THEN /\ pc' = "raised"
            /\ tool_results' = <<>>
       ELSE /\ pc' = "chat_while"
            /\ tool_results' = LoopResults(last'.ret)
    /\ UNCHANGED <<botVars, extVars, tools, clock, round_count, tool_calls_found, generations,
                   every_reply_called, notice, chats, resolved>>

\* the loop of chat is left, by break or by its condition: the dict is returned
ChatReturn ==
    /\ pc = "chat_after" \/ (pc = "chat_while" /\ ~ChatWhileCondition)
    /\ pc' = "done"
    /\ UNCHANGED <<botVars, extVars, tools, cfgVars, gateVars, clock, last, round_count,
                   tool_calls_found, tool_results, generations, executions,
                   every_reply_called, notice, chats, resolved>>

\* the arguments string of a call as _execute_tool_calls finds it: the JSON
\* text of one of the parameters values, or a blank string, which
\* _validate_tool_call accepts and json.loads rejects
BlankArguments == "blank"
ArgumentStrings == ParamValues \cup {NonDictParam, BlankArguments}

\* the argument decoding of _execute_tool_calls: json.loads(arguments_str), and
\* the empty dict, here dict_a, on a JSONDecodeError
DecodeArguments(arguments_str) ==
    IF arguments_str = BlankArguments THEN "dict_a" ELSE arguments_str

\* _execute_tool_calls on the call of the round, from chat_stream or from chat,
\* with the arguments string it decodes
LoopExecuteStep(arguments_str) ==
    /\ pc \in {"execute", "chat_execute"}
    /\ DecodeArguments(arguments_str) \in LoopParamsFor(tool_calls_found[1])
    /\ \E choice \in ChoicesFor(tool_calls_found[1]) :
          \E hout \in OutcomesFor(tool_calls_found[1], choice), save \in SavesFor(choice) :
             \/ ExecuteToolCalls(DecodeArguments(arguments_str), hout, choice, save)
             \/ ChatExecuteToolCalls(DecodeArguments(arguments_str), hout, choice, save)

NextChat ==
    \/ Tick
    \/ StartChatStream
    \/ \E reply \in Replies : Generate(reply)
    \/ Finish
    \/ StartChat
    \/ \E reply \in Replies : ChatGenerate(reply)
    \/ \E arguments_str \in ArgumentStrings : LoopExecuteStep(arguments_str)
    \/ ChatReturn

SpecChat == InitChat /\ [][NextChat]_vars

\* ------------------------------------------------------- the XML parser
\* A text is a sequence of tokens: tags, words, the punctuation of JSON, a
\* blank. A JSON value is a record: an object holds its members in order as
\* pairs <<key, value>>, a string holds its characters, a number its digits.
Json(kind, v) == [kind |-> kind, v |-> v]
JSONDecodeError == Json("JSONDecodeError", <<>>)
Quote == "\""

\* the least index i >= from with text[i] \in S, or 0
FirstIn(text, S, from) ==
    LET I == {i \in from..Len(text) : text[i] \in S}
    IN  IF I = {} THEN 0 ELSE CHOOSE i \in I : \A j \in I : i <= j

\* re.search of  open(.*?)close  with re.DOTALL from a position: no match, or
\* the leftmost opening tag and the first closing tag after it
re_search(opens, close, text, from) ==
    LET i == FirstIn(text, opens, from)
        j == IF i = 0 THEN 0 ELSE FirstIn(text, {close}, i + 1)
    IN  IF j = 0 THEN <<>>
        ELSE <<[end |-> j, group |-> SubSeq(text, i + 1, j - 1)]>>

\* re.findall of the same pattern: the groups of the matches, left to right
RECURSIVE re_findall(_, _, _, _)
re_findall(opens, close, text, from) ==
    LET m == re_search(opens, close, text, from)
    IN  IF m = <<>> THEN <<>>
        ELSE <<m[1].group>> \o re_findall(opens, close, text, m[1].end + 1)

\* str.strip
RECURSIVE strip(_)
strip(s) ==
    IF s # <<>> /\ Head(s) = " " THEN strip(Tail(s))
    ELSE IF s # <<>> /\ s[Len(s)] = " " THEN strip(SubSeq(s, 1, Len(s) - 1))
    ELSE s

\* dict assignment: the key keeps its place when it is already there
DictSet(members, k, v) ==
    IF \E i \in 1..Len(members) : members[i][1] = k
    THEN [i \in 1..Len(members) |-> IF members[i][1] = k THEN <<k, v>> ELSE members[i]]
    ELSE Append(members, <<k, v>>)

\* json.dumps (the blanks after its separators are left out)
RECURSIVE json_dumps_members(_)
json_dumps_members(members) ==
    IF members = <<>> THEN <<>>
    ELSE <<Quote, members[1][1], Quote, ":">>
         \o (IF members[1][2].kind = "str"
             THEN <<Quote>> \o members[1][2].v \o <<Quote>> ELSE members[1][2].v)
         \o (IF Len(members) > 1 THEN <<",">> ELSE <<>>)
         \o json_dumps_members(Tail(members))
json_dumps(x) ==
    IF x.kind = "object" THEN <<"{">> \o json_dumps_members(x.v) \o <<"}">>
    ELSE IF x.kind = "str" THEN <<Quote>> \o x.v \o <<Quote>>
    ELSE x.v

\* json.loads of a scalar
json_loads_value(t) ==
    IF t # <<>> /\ \A i \in 1..Len(t) : t[i] = "1" THEN Json("int", t)
    ELSE IF t \in {<<"true">>, <<"false">>} THEN Json("bool", t)
    ELSE IF /\ Len(t) >= 2
            /\ t[1] = Quote
            /\ t[Len(t)] = Quote
            /\ \A i \in 2..(Len(t) - 1) : t[i] # Quote
         THEN Json("str", SubSeq(t, 2, Len(t) - 1))
    ELSE JSONDecodeError

\* json.loads of the members of an object, read left to right
RECURSIVE json_loads_members(_)
json_loads_members(t) ==
    IF Len(t) < 5 \/ t[1] # Quote \/ t[2] = Quote \/ t[3] # Quote \/ t[4] # ":"
    THEN JSONDecodeError
    ELSE LET e == IF t[5] = Quote THEN FirstIn(t, {Quote}, 6)
                  ELSE IF FirstIn(t, {","}, 5) = 0 THEN Len(t)
                  ELSE FirstIn(t, {","}, 5) - 1
             val == IF e < 5 THEN JSONDecodeError ELSE json_loads_value(SubSeq(t, 5, e))
             rest == SubSeq(t, e + 1, Len(t))
         IN  IF val.kind = "JSONDecodeError" THEN JSONDecodeError
             ELSE IF rest = <<>> THEN Json("object", <<<<t[2], val>>>>)
             ELSE IF rest[1] # "," THEN JSONDecodeError
             ELSE LET more == json_loads_members(Tail(rest))
                  IN  IF more.kind = "JSONDecodeError" THEN JSONDecodeError
                      ELSE Json("object", IF \E i \in 1..Len(more.v) : more.v[i][1] = t[2]
                                      THEN more.v
                                      ELSE <<<<t[2], val>>>> \o more.v)

\* json.loads
json_loads(text) ==
    LET t == strip(text)
    IN  IF Len(t) >= 2 /\ t[1] = "{" /\ t[Len(t)] = "}"
        THEN IF Len(t) = 2 THEN Json("object", <<>>)
             ELSE json_loads_members(SubSeq(t, 2, Len(t) - 1))
        ELSE json_loads_value(t)

\* the tags  <word>  and  </word>  that the pattern <(\w+)>(.*?)</\1> pairs
XmlWords == {"path", "name", "parameters", "parameter", "tool_call", "tool_calls"}

\* XMLParser._parse_xml_parameters: the loop over the matches, from a position
\* of the content on, with the parameters found so far
RECURSIVE _parse_xml_parameters(_, _, _)
_parse_xml_parameters(xml_content, from, parameters) ==
    LET I == {i \in from..Len(xml_content) :
                 \E w \in XmlWords : /\ xml_content[i] = ("<" \o w \o ">")
                                     /\ FirstIn(xml_content, {("</" \o w \o ">")}, i + 1) # 0}
    IN  IF I = {} THEN parameters
        ELSE LET i == CHOOSE x \in I : \A y \in I : x <= y
                 w == CHOOSE x \in XmlWords : xml_content[i] = ("<" \o x \o ">")
                 j == FirstIn(xml_content, {("</" \o w \o ">")}, i + 1)
                 param_value == strip(SubSeq(xml_content, i + 1, j - 1))
             IN  _parse_xml_parameters(xml_content, j + 1,
                    DictSet(parameters, w,
                            IF param_value \in {<<"true">>, <<"false">>}
                            THEN Json("bool", param_value)
                            ELSE IF param_value # <<>>
                                    /\ \A d \in 1..Len(param_value) : param_value[d] = "1"
                                 THEN Json("int", param_value)
                            ELSE Json("str", param_value)))

\* XMLParser._parse_single_xml_tool_call: no call or one; the name is a word,
\* nothing, or several tokens, which spell no registered name
_parse_single_xml_tool_call(xml_content) ==
    LET name_match == re_search({"<name>"}, "</name>", xml_content, 1)
        first == re_search({"<parameters>"}, "</parameters>", xml_content, 1)
        params_match == IF first # <<>> THEN first
                        ELSE re_search({"<parameter>"}, "</parameter>", xml_content, 1)
        params_content == strip(params_match[1].group)
        tool_name == strip(name_match[1].group)
        parameters == IF params_match = <<>> THEN Json("object", <<>>)
                      ELSE IF json_loads(params_content).kind # "JSONDecodeError"
                           THEN json_loads(params_content)
                      ELSE Json("object", _parse_xml_parameters(params_content, 1, <<>>))
    IN  IF name_match = <<>> THEN <<>>
        ELSE <<[name |-> IF tool_name = <<>> THEN ""
                         ELSE IF Len(tool_name) = 1 THEN tool_name[1] ELSE "ghost",
                arguments |-> json_dumps(parameters)]>>

\* XMLParser._validate_tool_call of a call the parser built
_validate_tool_call(tool_call) ==
    /\ tool_call.name # ""
    /\ \/ strip(tool_call.arguments) = <<>>
       \/ json_loads(tool_call.arguments).kind # "JSONDecodeError"

\* the calls of the matches of  <tool_call[^>]*>(.*?)</tool_call>  that pass
\* the validation
RECURSIVE ValidCallsOf(_)
ValidCallsOf(matches) ==
    IF matches = <<>> THEN <<>>
    ELSE SelectSeq(_parse_single_xml_tool_call(Head(matches)), _validate_tool_call)
         \o ValidCallsOf(Tail(matches))
XmlCallsIn(text) ==
    ValidCallsOf(re_findall({"<tool_call>", "<tool_calls>"}, "</tool_call>", text, 1))

\* the JSON document  [{"function":{"name":"N","arguments":"{}"}}] : a list of
\* one call, in the syntax of <tool_calls>
JsonCalls(N) ==
    <<"[", "{", Quote, "function", Quote, ":", "{", Quote, "name", Quote, ":", Quote, N, Quote,
      ",", Quote, "arguments", Quote, ":", Quote, "{", "}", Quote, "}", "}", "]">>

\* the calls of the matches of  <tool_calls>(.*?)</tool_calls> : a match that
\* decodes to a list of one call adds that call, which passes the validation;
\* the other JSON documents of these texts hold no list and no object with a
\* function member, so that they add nothing; and a match that does not decode
\* is read as XML
RECURSIVE WrappedCallsOf(_)
WrappedCallsOf(matches) ==
    IF matches = <<>> THEN <<>>
    ELSE LET t == strip(Head(matches))
         IN  (IF Len(t) = Len(JsonCalls("")) /\ t = JsonCalls(t[13]) /\ t[13] # Quote
              THEN <<[name |-> t[13], arguments |-> <<"{", "}">>]>>
              ELSE IF json_loads(Head(matches)).kind = "JSONDecodeError"
              THEN XmlCallsIn(Head(matches)) ELSE <<>>)
             \o WrappedCallsOf(Tail(matches))

\* XMLParser.extract_tool_calls on the tokens of a text, before and after the
\* cut to one call
CallsBeforeCut(text) ==
    WrappedCallsOf(re_findall({"<tool_calls>"}, "</tool_calls>", text, 1))
    \o XmlCallsIn(text)
XMLParser_extract_tool_calls(text) ==
    LET tool_calls == CallsBeforeCut(text)
    IN  IF Len(tool_calls) > 1 THEN SubSeq(tool_calls, 1, 1) ELSE tool_calls

\* the texts of the model replies: tool names, JSON objects, blocks
TextNames == {"write_file", "read_file"}
JsonObjects ==
    {<<>>} \cup {<<<<"path", x>>>> :
                   x \in {Json("str", <<"v">>), Json("int", <<"1">>),
                          Json("str", <<"</parameters>">>),
                          Json("str", <<"</tool_call>">>)}}
RawBlock(N, body) ==
    <<"<tool_call>", "<name>", N, "</name>", "<parameters>">> \o body
    \o <<"</parameters>", "</tool_call>">>
Block(N, P) == RawBlock(N, json_dumps(Json("object", P)))
Wrapped(M) == <<"<tool_calls>">> \o JsonCalls(M) \o <<"</tool_calls>">>
Blocks == {Block(N, P) : N \in TextNames, P \in JsonObjects}
MalformedTexts ==
    {RawBlock(N, body) :
        N \in TextNames,
        body \in {<<"v">>, <<"{">>, <<"{", Quote, "path", Quote, ":", "}">>,
                  <<"{", Quote, "path", Quote, ":", Quote, "v", "}">>,
                  <<"<path>", "v", "</path>">>}}
Texts ==
    Blocks \cup {<<"v", " ">> \o b \o <<" ", "v">> : b \in Blocks}
    \cup {a \o b : a \in Blocks, b \in Blocks}
    \cup {a \o <<"v">> \o b \o a : a \in Blocks, b \in Blocks}
    \cup MalformedTexts
    \cup {<<>>, <<"v">>,
          <<"<tool_call>", "<parameters>", "{", "}", "</parameters>", "</tool_call>">>,
          <<"<tool_call>", "<name>", "</name>", "</tool_call>">>,
          <<"<tool_call>", "<name>", "read_file", "</name>", "</tool_call>">>}
    \cup {<<"<tool_calls>">> \o b \o <<"</tool_calls>">> : b \in Blocks}
    \cup {Wrapped(M) : M \in TextNames}
    \cup {Block(N, <<>>) \o <<" ">> \o Wrapped(M) : N \in TextNames, M \in TextNames}
    \cup {Wrapped(M) \o <<" ">> \o Block(N, <<>>) : N \in TextNames, M \in TextNames}

\* what the extractor returns for each text
Extracted == [text \in Texts |-> XMLParser_extract_tool_calls(text)]

\* the arguments string of an extracted call, as _execute_tool_calls reads it
ArgumentsString(arguments) ==
    IF json_loads(arguments).kind = "JSONDecodeError" THEN BlankArguments
    ELSE IF json_loads(arguments).kind # "object" THEN NonDictParam
    ELSE IF json_loads(arguments).v = <<>> THEN "dict_a"
    ELSE "dict_b"

\* one pass of the loop body of chat_stream up to the test for tool calls,
\* the reply given as its text
GenerateText(text) ==
    /\ pc = "while"
    /\ WhileCondition
    /\ round_count' = round_count + 1
    /\ generations' = generations + 1
    /\ tool_calls_found' = Extracted[text]
    /\ tool_results' = <<>>
    /\ every_reply_called' = (every_reply_called /\ tool_calls_found' # <<>>)
    /\ pc' = IF tool_calls_found' = <<>> THEN "after" ELSE "execute"
    /\ UNCHANGED <<botVars, extVars, tools, cfgVars, gateVars, clock, last, executions, notice, chats,
                   resolved>>

\* the rest of the loop body: _execute_tool_calls on the extracted call
ExecuteParsedCall(hout, choice, save) ==
    /\ pc = "execute"
    /\ ToolRegistry_execute(tool_calls_found[1].name,
                            DecodeArguments(ArgumentsString(tool_calls_found[1].arguments)),
                            hout, choice, save)
    /\ executions' = executions + 1
    /\ IF last'.ret = Raised("UserConfirmationRequired")
       THEN /\ pc' = "raised"
            /\ tool_results' = <<>>
       ELSE /\ pc' = "while"
            /\ tool_results' = LoopResults(last'.ret)
    /\ UNCHANGED <<botVars, extVars, tools, clock, round_count, tool_calls_found, generations,
                   every_reply_called, notice, chats, resolved>>

NextParse ==
    \/ Tick
    \/ StartChatStream
    \/ \E text \in Texts : GenerateText(text)
    \/ /\ pc = "execute"
       /\ \E choice \in ChoicesFor(tool_calls_found[1].name) :
             \E hout \in OutcomesFor(tool_calls_found[1].name, choice),
                save \in SavesFor(choice) : ExecuteParsedCall(hout, choice, save)
    \/ Finish

SpecParse == InitChat /\ [][NextParse]_vars


\* ------------------------------------------------------ the streamed reply
\* the most tokens in one chunk of the adapter
MaxChunk == 3

\* what the model streams in a round: thinking text t inside its tags, answer
\* text a outside them
Streams ==
    {<<"<thinking>", "t", "t", "</thinking>", "a">>,
     <<"<thinking>", "t", "</thinking>", "<thinking>", "t", "</thinking>", "a">>,
     <<"<thinking>", "t", "</thinking>", " ", "a">>,
     <<"a", "a">>}

RECURSIVE Flatten(_)
Flatten(seqs) == IF seqs = <<>> THEN <<>> ELSE Head(seqs) \o Flatten(Tail(seqs))

\* re.sub(r'<thinking>.*?</thinking>', '', chunk, flags=re.DOTALL)
RECURSIVE RemoveThinking(_)
RemoveThinking(chunk) ==
    LET m == re_search({"<thinking>"}, "</thinking>", chunk, 1)
    IN  IF m = <<>> THEN chunk
        ELSE SubSeq(chunk, 1, m[1].end - Len(m[1].group) - 2)
             \o RemoveThinking(SubSeq(chunk, m[1].end + 1, Len(chunk)))

\* what the body of the async for yields for a chunk, and _thinking_mode after it
ChunkYields(chunk, mode) ==
    IF (\E i \in 1..Len(chunk) : chunk[i] = "<thinking>")
    THEN (IF mode = "unset" THEN <<"<thinking>">> ELSE <<>>)
         \o Flatten(re_findall({"<thinking>"}, "</thinking>", chunk, 1))
         \o (IF strip(RemoveThinking(chunk)) # <<>> THEN RemoveThinking(chunk) ELSE <<>>)
    ELSE (IF mode = "true" THEN <<"</thinking>">> ELSE <<>>)
         \o (IF strip(chunk) # <<>> THEN chunk ELSE <<>>)
ChunkMode(chunk, mode) ==
    IF (\E i \in 1..Len(chunk) : chunk[i] = "<thinking>") THEN (IF mode = "unset" THEN "true" ELSE mode)
    ELSE IF mode = "true" THEN "false"
    ELSE mode

\* the part of the generator's output outside the pair of thinking markers
RECURSIVE AnswerChannel(_, _)
AnswerChannel(out, in_thinking) ==
    IF out = <<>> THEN <<>>
    ELSE IF Head(out) = "<thinking>" THEN AnswerChannel(Tail(out), TRUE)
    ELSE IF Head(out) = "</thinking>" THEN AnswerChannel(Tail(out), FALSE)
    ELSE (IF in_thinking THEN <<>> ELSE <<Head(out)>>) \o AnswerChannel(Tail(out), in_thinking)

\* a round begins: the adapter is asked for the reply s
BeginGenerate(s) ==
    /\ pc = "while"
    /\ WhileCondition
    /\ round_count' = round_count + 1
    /\ generations' = generations + 1
    /\ tool_calls_found' = <<>>
    /\ stream' = s
    /\ full_response' = <<>>
    /\ yielded' = IF round_count = 0 THEN <<>> ELSE yielded
    /\ pc' = "streaming"
    /\ UNCHANGED <<botVars, tools, cfgVars, gateVars, clock, last, tool_results, executions,
                   every_reply_called, notice, chats, resolved, thinking_mode,
                   history, current_messages, requests>>

\* the adapter yields the next k tokens as one chunk: one pass of the async for
StreamChunk(k) ==
    /\ pc = "streaming"
    /\ k <= Len(stream)
    /\ LET chunk == SubSeq(stream, 1, k)
       IN  /\ stream' = SubSeq(stream, k + 1, Len(stream))
           /\ full_response' = full_response \o chunk
           /\ yielded' = yielded \o ChunkYields(chunk, thinking_mode)
           /\ thinking_mode' = ChunkMode(chunk, thinking_mode)
    /\ UNCHANGED <<botVars, tools, cfgVars, gateVars, clock, last, loopVars, resolved,
                   history, current_messages, requests>>

\* the stream has ended: the calls are extracted and the reply is stored
EndGenerate ==
    /\ pc = "streaming"
    /\ stream = <<>>
    /\ tool_calls_found' = XMLParser_extract_tool_calls(full_response)
    /\ history' = Append(history, [role |-> "assistant", content |-> full_response])
    /\ tool_results' = <<>>
    /\ every_reply_called' = (every_reply_called /\ tool_calls_found' # <<>>)
    /\ pc' = IF tool_calls_found' = <<>> THEN "after" ELSE "execute"
    /\ UNCHANGED <<botVars, tools, cfgVars, gateVars, clock, last, round_count, generations,
                   executions, notice, chats, resolved, thinking_mode, stream,
                   full_response, yielded, current_messages, requests>>

NextStream ==
    \/ StartChatStream
    \/ \E s \in Streams : BeginGenerate(s)
    \/ \E k \in 1..MaxChunk : StreamChunk(k)
    \/ EndGenerate
    \/ Finish

SpecStream == InitChat /\ [][NextStream]_vars


\* ------------------------------------------------------ the prompt assembly
\* the longest stored history
MaxHistory == 6

\* the defaults of token_optimization, and the messages of history read
keep_recent_messages == 5
filter_threshold == 1000
history_window == 20
token_optimization_enabled == TRUE
filter_old_tool_results == TRUE
filter_tools == {"list_tool_modules", "list_available_tools"}

\* The content of a stored message: plain text (tool "none"), or the
\* <TOOL_RESULT> payload of a tool, which is ToolResult.to_detailed_string of
\* its call, with the length of the payload.
Content(tool, len, success) ==
    [tool |-> tool, len |-> len, success |-> success, placeholder |-> FALSE]
Placeholder(tool) == [tool |-> tool, len |-> 0, success |-> TRUE, placeholder |-> TRUE]
StoredMessages ==
    {[role |-> "assistant", content |-> Content("none", 1001, TRUE)]}
    \cup {[role |-> "user", content |-> c] :
            c \in {Content("list_tool_modules", 1000, TRUE),
                   Content("list_available_tools", 1000, TRUE),
                   Content("list_available_tools", 1001, TRUE),
                   Content("list_available_tools", 1001, FALSE),
                   Content("read_file", 1001, TRUE)}}
Histories == UNION {[1..n -> StoredMessages] : n \in 0..MaxHistory}

\* the marks replace_tool_result looks for that the payload holds: the line
\* with the function name, and the headers the two tools write on success
Marks(c) ==
    IF c.placeholder THEN {c.tool}
    ELSE IF c.tool = "list_tool_modules" THEN {"list_tool_modules"}
    ELSE IF c.tool = "list_available_tools" /\ c.success
         THEN {"available_tools_header", "list_available_tools_completed"}
    ELSE {}

\* replace_tool_result
replace_tool_result(c) ==
    IF "list_tool_modules" \in filter_tools /\ "list_tool_modules" \in Marks(c)
    THEN Placeholder("list_tool_modules")
    ELSE IF /\ "list_available_tools" \in filter_tools
            /\ \/ "available_tools_header" \in Marks(c) /\ c.len > filter_threshold
               \/ "list_available_tools_completed" \in Marks(c)
         THEN Placeholder("list_available_tools")
    ELSE c

\* ChatBot._filter_tool_results_for_token_saving
_filter_tool_results_for_token_saving(content, is_recent_message) ==
    IF ~token_optimization_enabled THEN content
    ELSE IF ~filter_old_tool_results THEN content
    ELSE IF is_recent_message THEN content
    ELSE IF content.tool = "none" THEN content
    ELSE replace_tool_result(content)

\* history[-20:]
RecentMessages(h) ==
    IF Len(h) > history_window THEN SubSeq(h, Len(h) - history_window + 1, Len(h)) ELSE h

\* is_recent_message of the message at place i, counted from 1
IsRecentMessage(h, i) == i - 1 >= Len(RecentMessages(h)) - keep_recent_messages

\* ChatBot._build_messages_from_history: the system message and the history
_build_messages_from_history(h) ==
    <<[role |-> "system", content |-> Content("none", 0, TRUE)]>>
    \o [i \in 1..Len(RecentMessages(h)) |->
          [role |-> RecentMessages(h)[i].role,
           content |-> _filter_tool_results_for_token_saving(
                          RecentMessages(h)[i].content, IsRecentMessage(h, i))]]

\* a session with some stored history is loaded
InitPrompt ==
    /\ tools = SyncTools
    /\ InitGate
    /\ InitDefaultConfig
    /\ web_mode = FALSE
    /\ pc = "idle"
    /\ round_count = 0
    /\ tool_calls_found = <<>>
    /\ tool_results = <<>>
    /\ generations = 0
    /\ executions = 0
    /\ every_reply_called = TRUE
    /\ notice = FALSE
    /\ chats = 0
    /\ thinking_mode = "unset"
    /\ stream = <<>>
    /\ full_response = <<>>
    /\ yielded = <<>>
    /\ history \in Histories
    /\ current_messages = <<>>
    /\ requests = <<>>
    /\ chatbots = <<>>
    /\ self = 0

\* the prompt is assembled
BuildMessages ==
    /\ current_messages = <<>>
    /\ current_messages' = _build_messages_from_history(history)
    /\ UNCHANGED <<botVars, tools, cfgVars, gateVars, clock, last, loopVars, resolved,
                   thinking_mode, stream, full_response, yielded, history, requests>>

NextPrompt == BuildMessages

SpecPrompt == InitPrompt /\ [][NextPrompt]_vars


\* ------------------------------------------------- the /chat requests
\* the most requests served, and the most rounds of one request
MaxRequests == 2
MaxRequestRounds == 2
SessionIds == {"s1", "s2"}

\* a message of the table, with the request whose loop stored it
Message(role, session_id, r) == [role |-> role, session_id |-> session_id, request |-> r]

\* the server has started and the sessions exist
InitServer ==
    /\ tools = SyncTools
    /\ InitGate
    /\ InitLoop
    /\ InitDefaultConfig
    /\ web_mode = TRUE

\* POST /chat for a session: a ChatBot of its own is constructed and its
\* chat_stream runs up to the first await: the session is loaded, the user
\* message is stored, the prompt is built and the adapter is asked
Arrive(session_id) ==
    /\ Len(requests) < MaxRequests
    /\ requests' = Append(requests, [session_id |-> session_id, pc |-> "generating",
                                     round_count |-> 1])
    /\ history' = Append(history, Message("user", session_id, Len(requests) + 1))
    /\ UNCHANGED <<botVars, tools, cfgVars, gateVars, clock, last, loopVars, resolved,
                   thinking_mode, stream, full_response, yielded, current_messages>>

\* the adapter's stream of request r has ended: the reply is stored, and the
\* loop is left or the execution of the reply's call is awaited
Replied(r, has_call) ==
    /\ requests[r].pc = "generating"
    /\ history' = Append(history, Message("assistant", requests[r].session_id, r))
    /\ requests' = [requests EXCEPT ![r].pc = IF has_call THEN "executing" ELSE "done"]
    /\ UNCHANGED <<botVars, tools, cfgVars, gateVars, clock, last, loopVars, resolved,
                   thinking_mode, stream, full_response, yielded, current_messages>>

\* the tool of request r has returned: its result is stored as a user message,
\* the prompt is built again and the next round asks the adapter, or the loop
\* is left at its limit
Executed(r) ==
    /\ requests[r].pc = "executing"
    /\ history' = Append(history, Message("user", requests[r].session_id, r))
    /\ requests' = [requests EXCEPT
                      ![r].pc = IF requests[r].round_count < MaxRequestRounds
                                THEN "generating" ELSE "done",
                      ![r].round_count = IF requests[r].round_count < MaxRequestRounds
                                         THEN @ + 1 ELSE @]
    /\ UNCHANGED <<botVars, tools, cfgVars, gateVars, clock, last, loopVars, resolved,
                   thinking_mode, stream, full_response, yielded, current_messages>>

NextServer ==
    \/ \E session_id \in SessionIds : Arrive(session_id)
    \/ \E r \in 1..Len(requests), has_call \in BOOLEAN : Replied(r, has_call)
    \/ \E r \in 1..Len(requests) : Executed(r)

SpecServer == InitServer /\ [][NextServer]_vars

\* the loop of request r is generating or executing a tool
Running(r) == requests[r].pc \in {"generating", "executing"}

\* the requests whose loops stored the messages of a session, in order
RECURSIVE TurnsOf(_, _)
TurnsOf(h, session_id) ==
    IF h = <<>> THEN <<>>
    ELSE (IF Head(h).session_id = session_id THEN <<Head(h).request>> ELSE <<>>)
         \o TurnsOf(Tail(h), session_id)


\* ------------------------------------------------------------ the registry
\* the functions handed to register: a plain function and a coroutine function
Handlers == {[id |-> "f", is_async |-> FALSE], [id |-> "g", is_async |-> TRUE]}

\* ToolRegistry.register without its test for an existing name, and with it
register_overwrite(registry, name, func, flagged, category) ==
    Put(registry, name,
        [function |-> func, is_async |-> func.is_async,
         requires_confirmation |-> flagged, confirmation_category |-> category])
register(registry, name, func, flagged, category) ==
    IF name \in DOMAIN registry THEN registry
    ELSE register_overwrite(registry, name, func, flagged, category)

\* a call of register
Register(name, func, flagged, category) ==
    /\ tools' = register(tools, name, func, flagged, category)
    /\ last' = [NoOp EXCEPT !.op = "register", !.name = name, !.args = func]
    /\ UNCHANGED <<botVars, extVars, cfgVars, gateVars, clock, loopVars, resolved>>

\* the process with an empty registry, in console mode
InitRegistry ==
    /\ tools = EmptyDict
    /\ InitGate
    /\ InitLoop
    /\ InitDefaultConfig
    /\ web_mode = FALSE

NextRegistry ==
    \/ \E name \in {"write_file", "read_file"}, func \in Handlers, flagged \in BOOLEAN :
          Register(name, func, flagged, IF flagged THEN "file_write" ELSE "general")
    \/ \E n \in CallNames : \E p \in ParamsFor(n), choice \in ChoicesFor(n) :
          \E hout \in OutcomesFor(n, choice), save \in SavesFor(choice) :
             Execute(n, p, hout, choice, save)

SpecRegistry == InitRegistry /\ [][NextRegistry]_vars


\* ------------------------------------------------- several ChatBot objects
MaxBots == 2
default_max_turns == 20
\* the max_turns argument: None, or an int
TurnLimits == {[is_none |-> TRUE, n |-> 0]} \cup {[is_none |-> FALSE, n |-> k] : k \in 1..2}

\* ChatBot.__init__(max_turns=N, web_mode=b): the object keeps both, and the
\* mode of the process-wide confirmation manager becomes b
ChatBot_init(N, b) ==
    /\ Len(chatbots) < MaxBots
    /\ chatbots' = Append(chatbots, [max_turns |-> N, web_mode |-> b])
    /\ web_mode' = b
    /\ UNCHANGED <<self, extVars, tools, cfgVars, pending_confirmations, issued, invoked,
                   awaiting, approved, resumed, clock, last, loopVars, resolved>>

\* ChatBot._get_max_turns, which no method of ChatBot calls
_get_max_turns(bot) ==
    IF ~bot.max_turns.is_none THEN bot.max_turns.n ELSE default_max_turns

\* chat_stream of the ChatBot i is called: everything before the while loop
BotChatStream(i) ==
    /\ pc \in {"idle", "done", "raised"}
    /\ chats < MaxChats
    /\ chats' = chats + 1
    /\ self' = i
    /\ pc' = "while"
    /\ round_count' = 0
    /\ tool_calls_found' = <<>>
    /\ tool_results' = <<>>
    /\ generations' = 0
    /\ executions' = 0
    /\ every_reply_called' = TRUE
    /\ notice' = FALSE
    /\ UNCHANGED <<chatbots, extVars, tools, cfgVars, gateVars, clock, last, resolved>>

\* the process after import: the manager is in console mode, no ChatBot yet
InitBots ==
    /\ tools = SyncTools
    /\ InitGate
    /\ InitLoop
    /\ InitDefaultConfig
    /\ web_mode = FALSE

\* the call of the round is executed: the handler returns, the console, when
\* it is read, is answered with yes or no
BotExecuteToolCalls == \E choice \in {"y", "n"} : ExecuteToolCalls("dict_a", "ok", choice, "n")

NextBots ==
    \/ \E N \in TurnLimits, b \in BOOLEAN : ChatBot_init(N, b)
    \/ \E i \in 1..Len(chatbots) : BotChatStream(i)
    \/ \E reply \in Replies : Generate(reply)
    \/ BotExecuteToolCalls
    \/ Finish

SpecBots == InitBots /\ [][NextBots]_vars


\* ------------------------------------------ chat_stream and the message store
\* the rows db.add_message writes: the user message and an assistant reply
\* with the calls extracted from it
UserTurn(content) == [role |-> "user", content |-> content, tool_calls |-> <<>>]
AssistantTurn(calls) ==
    [role |-> "assistant", content |-> Content("none", 1, TRUE), tool_calls |-> calls]

\* tool_result_message: one <TOOL_RESULT> block for each pair of
\* zip(tool_calls_found, tool_results); the empty string when there is none
ToolResultTurn(calls, results) ==
    IF calls = <<>> \/ results = <<>> THEN UserTurn(Content("none", 0, TRUE))
    ELSE UserTurn(Content(calls[1], 1, results[1].success))

\* chat_stream is called: the user message is stored and the prompt is built
StoreChatStream ==
    /\ pc \in {"idle", "done", "raised"}
    /\ chats < MaxChats
    /\ Len(history) + 3 <= MaxHistory
    /\ chats' = chats + 1
    /\ history' = Append(history, UserTurn(Content("none", 1, TRUE)))
    /\ current_messages' = _build_messages_from_history(history')
    /\ pc' = "while"
    /\ round_count' = 0
    /\ tool_calls_found' = <<>>
    /\ tool_results' = <<>>
    /\ generations' = 0
    /\ executions' = 0
    /\ every_reply_called' = TRUE
    /\ notice' = FALSE
    /\ UNCHANGED <<botVars, tools, cfgVars, gateVars, clock, last, resolved,
                   thinking_mode, stream, full_response, yielded, requests>>

\* one pass of the loop body up to the test for tool calls: the adapter
\* answers current_messages with reply, which is stored with its calls
StoreGenerate(reply) ==
    /\ pc = "while"
    /\ WhileCondition
    /\ Len(history) + 2 <= MaxHistory
    /\ round_count' = round_count + 1
    /\ generations' = generations + 1
    /\ tool_calls_found' = extract_tool_calls(reply)
    /\ tool_results' = <<>>
    /\ history' = Append(history, AssistantTurn(tool_calls_found'))
    /\ every_reply_called' = (every_reply_called /\ tool_calls_found' # <<>>)
    /\ pc' = IF tool_calls_found' = <<>> THEN "after" ELSE "execute"
    /\ UNCHANGED <<botVars, tools, cfgVars, gateVars, clock, last, executions, notice, chats,
                   resolved, thinking_mode, stream, full_response, yielded,
                   current_messages, requests>>

\* await self._execute_tool_calls(tool_calls_found): the suspend signal leaves
\* chat_stream, any other outcome is a result the generator goes on to yield
StoreExecuteToolCalls(p, hout, choice, save) ==
    /\ pc = "execute"
    /\ ToolRegistry_execute(tool_calls_found[1], p, hout, choice, save)
    /\ executions' = executions + 1
    /\ IF last'.ret = Raised("UserConfirmationRequired")
       THEN /\ pc' = "raised"
            /\ tool_results' = <<>>
       ELSE /\ pc' = "results"
            /\ tool_results' = LoopResults(last'.ret)
    /\ UNCHANGED <<botVars, extVars, tools, clock, round_count, tool_calls_found, generations,
                   every_reply_called, notice, chats, resolved>>

\* the results have been yielded: they are stored as a user message and the
\* prompt of the next round is built
StoreToolResults ==
    /\ pc = "results"
    /\ history' = Append(history, ToolResultTurn(tool_calls_found, tool_results))
    /\ current_messages' = _build_messages_from_history(history')
    /\ pc' = "while"
    /\ UNCHANGED <<botVars, tools, cfgVars, gateVars, clock, last, round_count,
                   tool_calls_found, tool_results, generations, executions,
                   every_reply_called, notice, chats, resolved, thinking_mode, stream,
                   full_response, yielded, requests>>

StoreExecuteStep ==
    \E p \in LoopParamsFor(tool_calls_found[1]), choice \in ChoicesFor(tool_calls_found[1]) :
       \E hout \in OutcomesFor(tool_calls_found[1], choice), save \in SavesFor(choice) :
          StoreExecuteToolCalls(p, hout, choice, save)

NextStore ==
    \/ Tick
    \/ StoreChatStream
    \/ \E reply \in Replies : StoreGenerate(reply)
    \/ pc = "execute" /\ StoreExecuteStep
    \/ StoreToolResults
    \/ Finish
    \/ \E cid \in DOMAIN pending_confirmations, choice \in {"allow", "deny"} :
          Respond(cid, choice, FALSE, "n")
    \/ \E cid \in DOMAIN pending_confirmations : ExecuteConfirmed(cid, "ok")

SpecStore == InitChat /\ [][NextStore]_vars

\* ------------------------------------------------------------------ claims
\* some call execute(n, ...) is this step
ExecuteStep(n) ==
    \E p \in ParamsFor(n), choice \in ChoicesFor(n) :
       \E hout \in OutcomesFor(n, choice), save \in SavesFor(choice) :
          Execute(n, p, hout, choice, save)

\* C1: execute() of a name the registry does not hold returns a failed
\* ToolResult with error_code TOOL_NOT_FOUND, under every policy and in both
\* modes; it calls no handler, does not consult the gate, prompts nobody and
\* stores no pending confirmation.
C1_UnregisteredIsNotFound ==
    [][\A n \in UnknownNames :
          ExecuteStep(n) =>
             /\ last'.ret.kind = "ToolResult"
             /\ last'.ret.success = FALSE
             /\ last'.ret.error_code = "TOOL_NOT_FOUND"
             /\ ~last'.handler /\ ~last'.gate /\ ~last'.prompted /\ ~last'.suspended
             /\ pending_confirmations' = pending_confirmations
             /\ issued' = issued
             /\ cfgVars' = cfgVars]_vars

\* an unregistered name was executed in web mode while a request was pending
\* and the default policy was deny
C1_Witness ==
    /\ last.op = "execute" /\ last.name \in UnknownNames
    /\ last.ret.error_code = "TOOL_NOT_FOUND"
    /\ web_mode
    /\ default_policy = "deny"
    /\ DOMAIN pending_confirmations # {}

\* C8: a tool registered with requires_confirmation=False always passes the
\* gate: execute() never returns USER_DENIED for it, never prompts and never
\* suspends, whatever the policies and the session memory hold.
C8_UnflaggedAlwaysPasses ==
    (/\ last.op = "execute"
     /\ last.name \in DOMAIN tools
     /\ ~tools[last.name].requires_confirmation)
    => /\ last.ret.error_code # "USER_DENIED"
       /\ ~last.prompted
       /\ ~last.suspended

\* the policy in force for a registered tool
PolicyOf(n) == get_confirmation_policy(n, tools[n].confirmation_category)

\* C9: for a flagged tool whose effective policy is allow, execute() calls the
\* handler without prompting and without suspending; when it is deny, execute()
\* returns USER_DENIED without prompting, suspending or calling the handler; in
\* blocking mode and in suspend mode alike.
C9_AllowDenyShortCircuit ==
    [][\A n \in DOMAIN tools :
          (/\ tools[n].requires_confirmation
           /\ PolicyOf(n) \in {"allow", "deny"}
           /\ ExecuteStep(n)) =>
             /\ PolicyOf(n) = "allow" =>
                   /\ last'.handler /\ ~last'.prompted /\ ~last'.suspended
                   /\ last'.ret.kind = "ToolResult"
                   /\ last'.ret.error_code # "USER_DENIED"
                   /\ pending_confirmations' = pending_confirmations
             /\ PolicyOf(n) = "deny" =>
                   /\ ~last'.handler /\ ~last'.prompted /\ ~last'.suspended
                   /\ last'.ret = DeniedResult
                   /\ pending_confirmations' = pending_confirmations]_vars

\* a flagged tool ran in web mode because its category policy is allow, with no
\* policy of its own and a default policy of ask
C9_Witness ==
    /\ last.op = "execute" /\ last.name = "write_file"
    /\ last.handler /\ ~last.prompted /\ ~last.suspended
    /\ web_mode
    /\ "write_file" \notin DOMAIN tool_policies
    /\ Get(category_policies, "file_write") = "allow"
    /\ default_policy = "ask"


Range(f) == {f[i] : i \in DOMAIN f}

\* some call handle_confirmation_response(cid, choice, ...) is this step
RespondStep(cid, choice) ==
    \E remember \in RemembersFor(cid, choice) : \E save \in WebSavesFor(remember) :
       Respond(cid, choice, remember, save)

\* a call execute_confirmed_tool(cid) is this step
ConfirmedStep(cid) == \E hout \in ConfirmedOutcomesFor(cid) : ExecuteConfirmed(cid, hout)

\* C4: each suspended call is stored under a confirmation_id of its own: no two
\* requests ever constructed share an id, so that none overwrites another.
C4_FreshIds ==
    \A i, j \in 1..Len(issued) : i # j => issued[i] # issued[j]

\* C5: a resume of an id that was never issued, or whose resume has been
\* completed, fails with an error, calls no handler and changes nothing.
C5_ResumeOnce ==
    [][\A cid \in ResumeIds :
          (/\ cid \notin Range(issued) \/ cid \in resumed
           /\ \/ \E choice \in WebChoices : RespondStep(cid, choice)
              \/ ConfirmedStep(cid)) =>
             /\ last'.ret = Raised("ValueError")
             /\ ~last'.handler
             /\ <<cfgVars, gateVars>>' = <<cfgVars, gateVars>>]_vars

\* C6: a denial of a pending id returns a failed ToolResult with error_code
\* USER_DENIED, removes the pending entry, and the handler is not called for
\* the request.
C6_DenyYieldsUserDenied ==
    [][\A cid \in DOMAIN pending_confirmations :
          RespondStep(cid, "deny") =>
             /\ last'.ret = DeniedResult
             /\ cid \notin DOMAIN pending_confirmations'
             /\ ~last'.handler
             /\ invoked'[pending_confirmations[cid].req] = 0]_vars

\* the awaited handler of the coroutine co returns
ResumeStep(co) == \E hout \in HandlerOutcomes : ExecuteConfirmedResume(co, hout)

\* C7: execute_confirmed_tool on a pending id calls the handler of a registered
\* tool with the stored parameters and does not consult the gate, whatever the
\* policy has become; when it returns, with a result, a handler exception or a
\* tool that is not found, the pending entry is gone.
C7_ApprovedRunsUngated ==
    [][/\ \A cid \in DOMAIN pending_confirmations :
             ConfirmedStep(cid) =>
                LET request == pending_confirmations[cid]
                IN  /\ ~last'.gate /\ ~last'.prompted /\ ~last'.suspended
                    /\ issued' = issued
                    /\ cfgVars' = cfgVars
                    /\ (request.tool_name \in DOMAIN tools /\ IsDict(request.parameters)) =>
                          /\ last'.handler
                          /\ last'.args = request.parameters
                          /\ invoked'[request.req] = invoked[request.req] + 1
                    /\ last'.op = "confirmed" =>
                          /\ last'.ret.kind = "ToolResult"
                          /\ cid \notin DOMAIN pending_confirmations'
       /\ \A co \in BagToSet(awaiting) :
             ResumeStep(co) =>
                /\ ~last'.gate /\ ~last'.prompted /\ ~last'.suspended
                /\ issued' = issued
                /\ last'.ret.kind = "ToolResult"
                /\ co.cid \notin DOMAIN pending_confirmations']_vars

\* an approved request for the async tool was run by the resume path, its
\* handler raised, and the entry is gone, while the policy of the tool has
\* become deny
C7_Witness ==
    /\ last.op = "confirmed" /\ last.name = "run_task" /\ last.req \in approved
    /\ last.handler /\ last.ret.error_code = "EXECUTION_ERROR"
    /\ last.cid \notin DOMAIN pending_confirmations
    /\ PolicyOf(last.name) = "deny"

\* C10: get_confirmation_policy returns the per-tool policy when one is set;
\* otherwise the per-category policy when one is set; otherwise the global
\* default - for every combination of set and unset values.
C10_ResolutionOrder ==
    [][\A t \in PolicyNames, c \in PolicyCategories :
          Resolve(t, c) =>
             LET tool_policy == Get(tool_policies, t)
                 category_policy == Get(category_policies, c)
             IN  /\ resolved'.policy \in Policies
                 /\ tool_policy # None => resolved'.policy = tool_policy
                 /\ (tool_policy = None /\ category_policy # None) =>
                       resolved'.policy = category_policy
                 /\ (tool_policy = None /\ category_policy = None
                       /\ default_policy # None) =>
                       resolved'.policy = default_policy]_vars

\* the three levels hold three different values and the tool's one is returned
C10_Witness ==
    /\ resolved.tool_name = "write_file" /\ resolved.category = "file_write"
    /\ Get(tool_policies, "write_file") = "deny"
    /\ Get(category_policies, "file_write") = "allow"
    /\ default_policy = "ask"
    /\ resolved.policy = "deny"

\* C2: the call a round extracts yields either one ToolResult in the round's
\* results and no pending request, or the suspend signal with one request
\* stored and no result - never neither, never both, in both modes.
C2_OneResultOrOneRequest ==
    [][(pc = "execute" /\ ExecuteToolCallsStep) =>
          \/ /\ Len(tool_results') = 1
             /\ tool_results'[1].kind = "ToolResult"
             /\ pc' = "while"
             /\ ~last'.suspended
             /\ issued' = issued
             /\ pending_confirmations' = pending_confirmations
          \/ /\ tool_results' = <<>>
             /\ pc' = "raised"
             /\ last'.suspended
             /\ Len(issued') = Len(issued) + 1
             /\ Cardinality({c \in DOMAIN pending_confirmations' :
                               pending_confirmations'[c].req = Len(issued')}) = 1]_vars

\* in web mode a first chat_stream was suspended with its request stored, and
\* in a second one an exception that escaped execute() became the one result
C2_Witness ==
    /\ web_mode /\ chats = 2 /\ pc = "while"
    /\ DOMAIN pending_confirmations # {}
    /\ last.op = "execute" /\ last.ret.kind = "raise"
    /\ Len(tool_results) = 1 /\ tool_results[1].error_code = "EXECUTION_ERROR"

\* C3: chat_stream makes at most max_rounds generations and tool executions;
\* when every reply holds a valid call and none suspends it ends after exactly
\* max_rounds rounds with the limit notice; and every chat_stream that was
\* started stops.
C3_TerminatesAtLimit ==
    /\ [](/\ generations <= max_rounds
          /\ executions <= max_rounds
          /\ (pc = "done" /\ every_reply_called) =>
                /\ round_count = max_rounds
                /\ generations = max_rounds
                /\ executions = max_rounds
                /\ notice)
    /\ (pc \in {"while", "execute", "after"}) ~> (pc \in {"done", "raised"})

C3_Witness ==
    /\ pc = "done" /\ every_reply_called /\ notice
    /\ round_count = max_rounds /\ executions = max_rounds

\* the session memory entry of a registered tool
MemoryOf(n) == get_session_memory(SessionKey(n, tools[n].confirmation_category))

\* execute(n, ...) of a flagged tool under policy ask with a remembered choice
\* is decided by that choice, without prompt and without suspension
DecidedByMemory(n) ==
    ExecuteStep(n) =>
       /\ ~last'.prompted /\ ~last'.suspended
       /\ pending_confirmations' = pending_confirmations
       /\ MemoryOf(n) = "allow_always" =>
             last'.handler /\ last'.ret.error_code # "USER_DENIED"
       /\ MemoryOf(n) = "deny_always" =>
             ~last'.handler /\ last'.ret = DeniedResult

\* C11 as stated: whenever the effective policy of a flagged tool is ask and
\* the session memory holds allow_always (deny_always) under its key, execute()
\* proceeds (returns USER_DENIED) without prompting or suspending.
C11_MemoryShortCircuits ==
    [][\A n \in DOMAIN tools :
          (/\ tools[n].requires_confirmation
           /\ PolicyOf(n) = "ask"
           /\ MemoryOf(n) \in MemoryValues) => DecidedByMemory(n)]_vars

\* C11: with remember_choices enabled, a flagged tool under policy ask whose
\* key holds allow_always (deny_always) in the session memory is executed
\* (denied with USER_DENIED) without prompt or suspension; a decision given
\* with the remember option writes that entry; and the memory changes only by
\* such a decision or by being cleared.
C11_MemoryShortCircuitsWhenEnabled ==
    [][/\ \A n \in DOMAIN tools :
             (/\ tools[n].requires_confirmation
              /\ PolicyOf(n) = "ask"
              /\ is_remember_choices_enabled
              /\ MemoryOf(n) \in MemoryValues) => DecidedByMemory(n)
       /\ \A n \in DOMAIN tools, choice \in {"a", "d"} :
             (/\ is_remember_choices_enabled
              /\ Prompts(n)
              /\ \E hout \in OutcomesFor(n, choice), save \in SaveChoices :
                    Execute(n, "dict_a", hout, choice, save)) =>
                MemoryOf(n)' = PromptRemembers(choice)
       /\ \A cid \in DOMAIN pending_confirmations, choice \in {"allow", "deny"} :
          \A n \in DOMAIN tools :
             (/\ is_remember_choices_enabled
              /\ pending_confirmations[cid].tool_name = n
              /\ \E save \in WebSavesFor(TRUE) : Respond(cid, choice, TRUE, save)) =>
                MemoryOf(n)' =
                   (IF choice = "allow" THEN "allow_always" ELSE "deny_always")
       /\ session_memory' # session_memory =>
             \/ session_memory' = EmptyDict
             \/ is_remember_choices_enabled /\ last'.op \in {"execute", "handle"}]_vars

\* in console mode a remembered denial decides a later execute(): the policy is
\* still ask, the memory holds deny_always, nobody was prompted
C11_Witness ==
    /\ ~web_mode /\ is_remember_choices_enabled
    /\ last.op = "execute" /\ last.name = "write_file"
    /\ last.ret = DeniedResult /\ ~last.prompted /\ ~last.suspended
    /\ PolicyOf("write_file") = "ask"
    /\ MemoryOf("write_file") = "deny_always"

\* C13: whatever exception the body of a handler raises, a TypeError included,
\* execute() returns a failed ToolResult with error_code EXECUTION_ERROR and
\* empty data; PARAMETER_ERROR is returned only when the parameters supplied
\* do not fit the parameters of the handler.
C13_HandlerExceptionIsExecutionError ==
    [][\A n \in DOMAIN tools, choice \in PromptChoices, hout \in HandlerOutcomes :
          (/\ choice \in ChoicesFor(n)
           /\ Passes(n, choice)
           /\ \E save \in SavesFor(choice) : Execute(n, "dict_a", hout, choice, save)) =>
             /\ hout \in {"raise", "raise_type_error"} =>
                   last'.ret = ToolResultOf(FALSE, "EXECUTION_ERROR", "")
             /\ last'.ret.error_code = "PARAMETER_ERROR" => hout = "arity"]_vars

\* what C12 asks of a step of _execute_tool_calls: the only exception that
\* leaves is the suspend signal, as the gate raised it; any other exception
\* raised on the way, by a source in sources, has become a failed ToolResult
\* and the loop goes on
ExceptionPolicy(arguments_str, sources) ==
    LoopExecuteStep(arguments_str) =>
       /\ pc' \in {"raised", "while", "chat_while"}
       /\ pc' = "raised" <=> last'.ret = Raised("UserConfirmationRequired")
       /\ pc' = "raised" =>
             /\ last'.suspended
             /\ last'.cid \in DOMAIN pending_confirmations'
             /\ tool_results' = <<>>
       /\ (/\ pc' # "raised"
           /\ \/ "decoding" \in sources /\ arguments_str = BlankArguments
              \/ "execute" \in sources /\ last'.ret.kind = "raise"
              \/ "handler" \in sources /\ last'.handler
                    /\ last'.ret.error_code \in {"EXECUTION_ERROR", "PARAMETER_ERROR"}) =>
             /\ Len(tool_results') = 1
             /\ tool_results'[1].kind = "ToolResult"
             /\ ~tool_results'[1].success

\* C12 as stated: the suspend signal is the only exception that leaves
\* _execute_tool_calls, chat_stream and chat, and it leaves unmodified; every
\* other exception raised while a call is executed - in argument decoding,
\* parameter mapping, the gate or the handler - becomes a failed ToolResult.
C12_OnlySuspendSignalLeaves ==
    [][\A arguments_str \in ArgumentStrings :
          ExceptionPolicy(arguments_str, {"decoding", "execute", "handler"})]_vars

\* C12: the suspend signal is the only exception that leaves, unmodified;
\* every other exception raised in parameter mapping, the gate or the handler
\* becomes a failed ToolResult and the loop goes on; an arguments string that
\* json.loads rejects is replaced by empty arguments and the call is executed.
C12_OnlySuspendSignalLeavesDecoded ==
    [][\A arguments_str \in ArgumentStrings :
          /\ ExceptionPolicy(arguments_str, {"execute", "handler"})
          /\ (arguments_str = BlankArguments /\ LoopExecuteStep(arguments_str)) =>
                LoopExecuteStep("dict_a")]_vars

\* in chat, an AttributeError that escaped execute() became the failed result
\* of the round, after an earlier chat was left by the suspend signal
C12_Witness ==
    /\ pc = "chat_while" /\ chats = 2 /\ web_mode
    /\ DOMAIN pending_confirmations # {}
    /\ last.ret = Raised("AttributeError")
    /\ tool_results = <<ToolResultOf(FALSE, "EXECUTION_ERROR", "")>>

\* C18: on the streaming path and on the non-streaming path, a loop that has
\* used up its rounds (its last round still executed a call) ends with the
\* round-limit notice in its output, and without raising.
C18_LimitNoticeOnBothPaths ==
    (pc = "done" /\ tool_calls_found # <<>>) =>
       /\ round_count \in {max_rounds, chat_max_rounds}
       /\ notice


\* C14: for a text with more than one well-formed <tool_call> block (two, or
\* three), extract_tool_calls finds more than one call and warns, and returns
\* exactly one call, which is the first block of the text: its name and its
\* decoded arguments are those of that block.
C14_OnlyFirstOfMany ==
    [][\A N \in TextNames, P \in JsonObjects, b \in Blocks :
          \A text \in {Block(N, P) \o b, Block(N, P) \o <<"v">> \o b \o Block(N, P)} :
             GenerateText(text) =>
                /\ Len(CallsBeforeCut(text)) > 1
                /\ Len(tool_calls_found') = 1
                /\ tool_calls_found'[1].name = N
                /\ json_loads(tool_calls_found'[1].arguments) = Json("object", P)]_vars

\* C15: a <tool_call> block whose <parameters> content is not valid JSON
\* yields no call, and the round of a reply whose only block is such a block
\* goes on as a round without a call: the loop is left and no tool is executed.
C15_MalformedParametersYieldNoCall ==
    [][\A text \in MalformedTexts :
          GenerateText(text) => tool_calls_found' = <<>> /\ pc' = "after"]_vars

\* C16: for every tool name N and JSON object P, the text that holds the single
\* block <tool_call><name>N</name><parameters>P</parameters></tool_call>
\* yields exactly one call, whose name is N and whose decoded arguments are P.
C16_SingleBlockRoundTrips ==
    [][\A N \in TextNames, P \in JsonObjects :
          \A text \in {Block(N, P), <<"v", " ">> \o Block(N, P) \o <<" ", "v">>} :
             GenerateText(text) =>
                /\ Len(tool_calls_found') = 1
                /\ tool_calls_found'[1].name = N
                /\ json_loads(tool_calls_found'[1].arguments) = Json("object", P)]_vars


\* C17: whatever the split of the stream into chunks, no thinking text, which
\* precedes the close of its <thinking> tag, is emitted on the answer channel:
\* a chunk without a tag that arrives while the tag is open goes to thinking.
C17_ThinkingNeverLeaks ==
    \A i \in 1..Len(AnswerChannel(yielded, FALSE)) :
       AnswerChannel(yielded, FALSE)[i] # "t"


\* C19: in the assembled prompt a stored tool-result payload is the
\* placeholder exactly when it is the payload of a configured tool, is longer
\* than the threshold and is older than the keep_recent_messages most recent
\* messages; otherwise it is the stored payload, unchanged.
C19_PlaceholderIffOldLargeChatty ==
    current_messages # <<>> =>
       \A i \in 1..Len(history) :
          history[i].content.tool # "none" =>
             IF /\ history[i].content.tool \in filter_tools
                /\ history[i].content.len > filter_threshold
                /\ ~IsRecentMessage(history, i)
             THEN current_messages[i + 1].content.placeholder
             ELSE current_messages[i + 1].content = history[i].content


\* C20: at any time at most one loop is generating or executing a tool for a
\* session id, also when a request for the session arrives while another is
\* running, and the stored turns of two requests of a session are not
\* interleaved: once a later request has stored a turn, no earlier one stores
\* another.
C20_OneLoopPerSession ==
    /\ \A r1, r2 \in 1..Len(requests) :
          (r1 # r2 /\ requests[r1].session_id = requests[r2].session_id)
             => ~(Running(r1) /\ Running(r2))
    /\ \A session_id \in SessionIds :
          \A i, j \in 1..Len(TurnsOf(history, session_id)) :
             i < j => TurnsOf(history, session_id)[i] <= TurnsOf(history, session_id)[j]


\* C22: register is idempotent per name and the registry is append-only: over
\* every register and every execute step, each registered name stays
\* registered with the spec it had, handler included.
C22_RegistryAppendOnly ==
    [][\A n \in DOMAIN tools : n \in DOMAIN tools' /\ tools'[n] = tools[n]]_vars
\* a name was registered again with another handler and the first one is kept
C22_Witness ==
    /\ last.op = "register"
    /\ last.name \in DOMAIN tools
    /\ tools[last.name].function # last.args
    /\ DOMAIN tools = {"write_file", "read_file"}


\* C24: in suspend mode with the policy ask in force, the handler of a flagged
\* tool runs for a suspended request only after an approve decision has been
\* recorded for its confirmation_id: execute_confirmed_tool on a pending id
\* that no decision was recorded for does not call the handler.
C24_HandlerOnlyAfterApproval ==
    (/\ web_mode
     /\ last.op \in {"confirmed", "confirmed_await"}
     /\ last.handler
     /\ tools[last.name].requires_confirmation
     /\ PolicyOf(last.name) = "ask") =>
        last.req \in approved

\* C25: a confirmation_id is used once under interleaving: while the async
\* handler started by one execute_confirmed_tool is awaited, a second
\* execute_confirmed_tool of the same pending id does not call the handler, so
\* that the handler is called at most once for the id.
C25_OverlappingResumeRunsOnce ==
    [][\A cid \in DOMAIN pending_confirmations :
          (/\ \E co \in BagToSet(awaiting) : co.cid = cid
           /\ ConfirmedStep(cid)) =>
              /\ ~last'.handler
              /\ invoked' = invoked]_vars


\* C27: chat_stream ends with the round-limit notice only when the loop stopped
\* because of the limit, the reply of the last permitted round still holding a
\* call; a turn whose loop ended on a reply without a call, in whichever round
\* up to round max_rounds, carries no notice.
C27_NoticeOnlyWhenLimitStoppedLoop ==
    (pc = "done" /\ notice) => tool_calls_found # <<>>


\* C29: the thinking markers of chat_stream are balanced in every round of
\* every call on a ChatBot: when the stream of a round that has ended held
\* thinking content, the output holds an opening marker and, after it, a
\* closing marker; and the in-thinking flag is not set when a round starts.
C29_ThinkingMarkersBalanced ==
    /\ (pc = "after" /\ \E n \in 1..Len(full_response) : full_response[n] = "<thinking>") =>
          \E i, k \in 1..Len(yielded) :
             i < k /\ yielded[i] = "<thinking>" /\ yielded[k] = "</thinking>"
    /\ pc = "while" => thinking_mode # "true"


\* C23: a ChatBot constructed with max_turns = N performs at most N rounds in
\* one chat_stream call, and one constructed with max_turns = None at most the
\* configured default_max_turns.
C23_RoundsBoundedByMaxTurns ==
    self # 0 => round_count <= _get_max_turns(chatbots[self])

\* C26: a flagged call under policy ask, with no remembered choice, made by
\* the chat_stream of a ChatBot constructed with web_mode = True raises the
\* suspend signal and does not read the console, whatever ChatBot objects
\* were constructed in the process before the call.
C26_GateModeIsTheChatBots ==
    [][(/\ self # 0
        /\ chatbots[self].web_mode
        /\ pc = "execute"
        /\ tool_calls_found[1] \in DOMAIN tools
        /\ tools[tool_calls_found[1]].requires_confirmation
        /\ PolicyOf(tool_calls_found[1]) = "ask"
        /\ MemoryOf(tool_calls_found[1]) = None
        /\ BotExecuteToolCalls) =>
           /\ last'.suspended
           /\ ~last'.prompted
           /\ pc' = "raised"]_vars


\* the stored turn at place i + 1 is the <TOOL_RESULT> user turn of the call
\* which the assistant turn at place i was saved with
FollowedByToolResult(i) ==
    /\ i < Len(history)
    /\ history[i + 1].role = "user"
    /\ history[i + 1].content.tool = history[i].tool_calls[1]

\* C28: in the message store every assistant turn saved with a tool call is
\* followed, as the next stored turn, by the <TOOL_RESULT> user turn of that
\* call, once the call has been executed, or has been suspended and then
\* resumed with an approval or a denial.
C28_CallTurnFollowedByResult ==
    (pc \notin {"execute", "results"} /\ pending_confirmations = EmptyDict) =>
       \A i \in 1..Len(history) :
          (history[i].role = "assistant" /\ history[i].tool_calls # <<>>) =>
             FollowedByToolResult(i)

C30_EarliestOfBothSyntaxes ==
    [][\A N \in TextNames, M \in TextNames :
          /\ GenerateText(Block(N, <<>>) \o <<" ">> \o Wrapped(M)) =>
                /\ Len(tool_calls_found') = 1
                /\ tool_calls_found'[1].name = N
          /\ GenerateText(Wrapped(M) \o <<" ">> \o Block(N, <<>>)) =>
                /\ Len(tool_calls_found') = 1
                /\ tool_calls_found'[1].name = M]_vars

====
